---- MODULE Spec2Model ----
(***************************************************************************)
(* State-machine model of the Google Nest integration's session handling:  *)
(* async_setup_entry, the self-rescheduling long-poll task                 *)
(* _async_subscribe_for_data, async_unload_entry / reload, the NestClient  *)
(* credential exchanges, and the way long-poll records are applied to the  *)
(* entry data (device store, derived indices, subscription cursor,         *)
(* dispatcher notifications).                                              *)
(*                                                                         *)
(* Scheduling: one cooperative event loop.  A step of the model is the     *)
(* code that runs between two awaits of one task.                          *)
(***************************************************************************)
EXTENDS Integers, Sequences, FiniteSets, TLC

\* ------------------------------------------------------------------ bounds
\* Number of times the config entry is set up (first setup plus reloads).
MaxGen == 2
\* Highest object revision the backend hands out.
MaxRev == 2
\* Most records in one long-poll response.
MaxBatch == 2
\* Ticks of the wall clock.
MaxTime == 1

Gens == 1..MaxGen
NoGen == 0

\* ------------------------------------------------------------ object keys
\* An object key "{type}.{id}" is the pair <<type, id>>: key.startswith(t + ".")
\* is key[1] = t, and key.split(".")[1] is key[2].
KeyType(key) == key[1]
KeyId(key) == key[2]

StoredTypes ==
    {"quartz", "topaz", "safety", "structure", "device", "link",
     "rcs_settings", "shared", "track", "kryptonite"}

\* The prefixes the loop has a branch for; any other prefix matches none.
AppliedTypes == StoredTypes \cup {"where"}

\* ------------------------------------------------------------------ values
\* The value payload of a record, per type: two well-formed payloads and,
\* for the types whose branch reads a field, one payload lacking that field.
ValuesOf(type) ==
    CASE type = "structure" ->
           {[name |-> "Home", time_zone |-> "UTC"],
            [name |-> "Cabin", time_zone |-> "CET"],
            [time_zone |-> "UTC"]}
      [] type = "device" ->
           {[where_id |-> "w1", model_version |-> "m1", current_version |-> "c1"],
            [where_id |-> "w2", model_version |-> "m1", current_version |-> "c2"],
            [where_id |-> "w1"]}
      [] type = "link" ->
           {[structure |-> <<"structure", "a">>],
            [structure |-> <<"structure", "b">>],
            [other |-> "x"]}
      [] type = "rcs_settings" ->
           {[associated_rcs_sensors |-> << >>],
            [associated_rcs_sensors |-> << <<"kryptonite", "a">> >>],
            [other |-> "x"]}
      [] type = "kryptonite" ->
           {[where_id |-> "w1"], [where_id |-> "w2"], [other |-> "x"]}
      [] type = "where" ->
           {[wheres |-> << [where_id |-> "w1", name |-> "Kitchen"] >>],
            [wheres |-> << [where_id |-> "w1", name |-> "Hall"],
                           [where_id |-> "w2", name |-> "Den"] >>],
            [other |-> "x"]}
      [] OTHER -> {[payload |-> "p"], [payload |-> "q"]}

HasField(value, f) == f \in DOMAIN value

\* object_timestamp travels with the revision it was written at.
TimestampOf(rev) == 1000 + rev

Bucket(key, rev, value) ==
    [object_key |-> key, object_revision |-> rev,
     object_timestamp |-> TimestampOf(rev), value |-> value]

BucketsOf(key) ==
    {Bucket(key, r, v) : r \in 1..MaxRev, v \in ValuesOf(KeyType(key))}

\* ---------------------------------------------------------------- dicts
EmptyDict == [x \in {} |-> 0]
Put(d, k, v) == [x \in (DOMAIN d) \cup {k} |-> IF x = k THEN v ELSE d[x]]
Get(d, k, default) == IF k \in DOMAIN d THEN d[k] ELSE default

\* ------------------------------------------------------------- entry data
\* HomeAssistantGoogleNestData without the client and the coordinators: the
\* device store and the derived indices.
NoRecord ==
    [object_key |-> <<"", "">>, object_revision |-> 0, object_timestamp |-> 0,
     value |-> [payload |-> "none"]]

EmptyEntry ==
    [devices |-> EmptyDict, structures |-> EmptyDict, time_zones |-> EmptyDict,
     thermostats |-> EmptyDict, thermostat_device_info |-> EmptyDict,
     sensors |-> EmptyDict, areas |-> EmptyDict, swarms |-> EmptyDict]

RECURSIVE PutAreas(_, _, _)
\* for area in bucket_value["wheres"]: areas[area["where_id"]] = area["name"]
PutAreas(areas, wheres, i) ==
    IF i > Len(wheres) THEN areas
    ELSE PutAreas(Put(areas, wheres[i].where_id, wheres[i].name), wheres, i + 1)

RECURSIVE PutSwarms(_, _, _, _)
\* for sensor in value["associated_rcs_sensors"]: swarms[sensor.split(".")[1]] = id
PutSwarms(swarms, sensors, id, i) ==
    IF i > Len(sensors) THEN swarms
    ELSE PutSwarms(Put(swarms, KeyId(sensors[i]), id), sensors, id, i + 1)

\* A link branch that takes the part of the structure key before the dot.
LinkStructureType(value) == KeyType(value.structure)

\* link.value["structure"].split(".")[1]: the id of the structure a
\* thermostat's link record names.
LinkStructure(value) == KeyId(value.structure)

\* The index assignments of one branch of the record loop, in source order.
\* A subscript on a missing field raises KeyError and leaves the assignments
\* made before it in place: the result is [entry, raised].
IndexRecord(ed, bucket) ==
    LET key == bucket.object_key
        id == KeyId(key)
        v == bucket.value
        ok(e) == [entry |-> e, raised |-> FALSE]
        ko(e) == [entry |-> e, raised |-> TRUE]
    IN CASE KeyType(key) = "structure" ->
              IF ~HasField(v, "name") THEN ko(ed)
              ELSE LET e1 == [ed EXCEPT !.structures = Put(@, id, v.name)]
                   IN IF ~HasField(v, "time_zone") THEN ko(e1)
                      ELSE ok([e1 EXCEPT !.time_zones = Put(@, id, v.time_zone)])
         [] KeyType(key) = "device" ->
              IF ~HasField(v, "where_id") THEN ko(ed)
              ELSE LET e1 == [ed EXCEPT !.thermostats = Put(@, id, v.where_id)]
                   IN IF ~(HasField(v, "model_version") /\ HasField(v, "current_version"))
                      THEN ko(e1)
                      ELSE ok([e1 EXCEPT !.thermostat_device_info =
                                  Put(@, id, [model_version |-> v.model_version,
                                              current_version |-> v.current_version])])
         [] KeyType(key) = "link" ->
              IF ~HasField(v, "structure") THEN ko(ed)
              ELSE ok([ed EXCEPT !.swarms = Put(@, id, LinkStructure(v))])
         [] KeyType(key) = "rcs_settings" ->
              IF ~HasField(v, "associated_rcs_sensors") THEN ko(ed)
              ELSE ok([ed EXCEPT !.swarms = PutSwarms(@, v.associated_rcs_sensors, id, 1)])
         [] KeyType(key) = "kryptonite" ->
              IF ~HasField(v, "where_id") THEN ko(ed)
              ELSE ok([ed EXCEPT !.sensors = Put(@, key, v.where_id)])
         [] OTHER -> ok(ed)

\* A loop that keeps every record, whatever its type.
StoresRecordAnyType(key) == TRUE

\* Whether the loop stores a record of this key in entry_data.devices: every
\* branch but the one for "where." assigns entry_data.devices[key].
StoresRecord(key) == KeyType(key) \in StoredTypes

\* Whether the branch of this key ends in async_dispatcher_send(hass, key, record).
DispatchesRecord(key) == KeyType(key) \in StoredTypes

\* A loop whose branches call the dispatcher right after the assignment to
\* entry_data.devices, before the index assignments.
ApplyRecordDispatchesEarly(ed, bucket) ==
    LET key == bucket.object_key IN
    IF KeyType(key) = "where" THEN
        IF ~HasField(bucket.value, "wheres")
        THEN [entry |-> ed, sent |-> NoRecord, seen |-> ed, raised |-> TRUE]
        ELSE [entry |-> [ed EXCEPT !.areas = PutAreas(@, bucket.value.wheres, 1)],
              sent |-> NoRecord, seen |-> ed, raised |-> FALSE]
    ELSE IF KeyType(key) \notin StoredTypes THEN
        [entry |-> ed, sent |-> NoRecord, seen |-> ed, raised |-> FALSE]
    ELSE
        LET stored == [ed EXCEPT !.devices = Put(@, key, bucket)]
            r == IndexRecord(stored, bucket)
        IN [entry |-> r.entry, sent |-> bucket, seen |-> stored, raised |-> r.raised]

\* One iteration of "for bucket in result['objects']" in the subscription
\* loop: what it leaves in the entry data, what it hands to the dispatcher
\* (NoRecord: nothing), the entry data as it is when the dispatcher is
\* called, and whether it raised.
ApplyRecord(ed, bucket) ==
    LET key == bucket.object_key IN
    IF KeyType(key) = "where" THEN
        IF ~HasField(bucket.value, "wheres")
        THEN [entry |-> ed, sent |-> NoRecord, seen |-> ed, raised |-> TRUE]
        ELSE [entry |-> [ed EXCEPT !.areas = PutAreas(@, bucket.value.wheres, 1)],
              sent |-> NoRecord, seen |-> ed, raised |-> FALSE]
    ELSE IF ~StoresRecord(key) THEN
        [entry |-> ed, sent |-> NoRecord, seen |-> ed, raised |-> FALSE]
    ELSE
        LET stored == [ed EXCEPT !.devices = Put(@, key, bucket)]
            r == IndexRecord(stored, bucket)
        IN [entry |-> r.entry,
            sent |-> IF ~r.raised /\ DispatchesRecord(key) THEN bucket ELSE NoRecord,
            seen |-> r.entry,
            raised |-> r.raised]

\* Whether the indices of the entry data carry what the record's branch
\* derives from it.
Reflects(ed, bucket) ==
    LET key == bucket.object_key
        id == KeyId(key)
        v == bucket.value
    IN CASE KeyType(key) = "structure" ->
              /\ HasField(v, "name") /\ HasField(v, "time_zone")
              /\ Get(ed.structures, id, "None") = v.name
              /\ Get(ed.time_zones, id, "None") = v.time_zone
         [] KeyType(key) = "device" ->
              /\ HasField(v, "where_id") /\ HasField(v, "model_version")
              /\ HasField(v, "current_version")
              /\ Get(ed.thermostats, id, "None") = v.where_id
              /\ Get(ed.thermostat_device_info, id, "None")
                    = [model_version |-> v.model_version,
                       current_version |-> v.current_version]
         [] KeyType(key) = "link" ->
              /\ HasField(v, "structure")
              /\ Get(ed.swarms, id, "None") = KeyId(v.structure)
         [] KeyType(key) = "rcs_settings" ->
              /\ HasField(v, "associated_rcs_sensors")
              /\ \A i \in 1..Len(v.associated_rcs_sensors) :
                    Get(ed.swarms, KeyId(v.associated_rcs_sensors[i]), "None") = id
         [] KeyType(key) = "kryptonite" ->
              /\ HasField(v, "where_id")
              /\ Get(ed.sensors, key, "None") = v.where_id
         [] OTHER -> TRUE

\* How a record's revision stands to the one stored for its key.
CompareRevision(prev, bucket) ==
    IF prev = NoRecord THEN "new"
    ELSE IF bucket.object_revision < prev.object_revision THEN "older"
    ELSE IF bucket.object_revision = prev.object_revision THEN "same"
    ELSE "newer"

\* What one record of the response did: its type, how its revision stood to
\* the stored one, whether the entry data (store or indices) changed,
\* whether the store now holds the record, whether it was dispatched and
\* with which record, whether the store held the record and the indices
\* reflected it when the dispatcher was called, whether its branch raised.
LogEntry(ed, bucket, r) ==
    LET key == bucket.object_key
        prev == Get(ed.devices, key, NoRecord)
        stored == Get(r.entry.devices, key, NoRecord)
    IN [type |-> KeyType(key),
        revision |-> CompareRevision(prev, bucket),
        changed |-> r.entry # ed,
        replaced |-> stored # prev,
        holds |-> stored = bucket,
        notified |-> r.sent # NoRecord,
        carried |-> IF r.sent = NoRecord THEN "nothing"
                    ELSE IF r.sent = stored THEN "stored" ELSE "other",
        seen |-> /\ Get(r.seen.devices, key, NoRecord) = bucket
                 /\ Reflects(r.seen, bucket),
        raised |-> r.raised]

RECURSIVE ApplyObjects(_, _, _, _)
\* The whole record loop over result["objects"]; it stops at the first record
\* that raises.  Result: [entry, log, raised].
ApplyObjects(ed, objects, i, log) ==
    IF i > Len(objects) THEN [entry |-> ed, log |-> log, raised |-> FALSE]
    ELSE LET r == ApplyRecord(ed, objects[i])
             log1 == Append(log, LogEntry(ed, objects[i], r))
         IN IF r.raised THEN [entry |-> r.entry, log |-> log1, raised |-> TRUE]
            ELSE ApplyObjects(r.entry, objects, i + 1, log1)

RECURSIVE FirstWithKey(_, _, _)
\* The first record of the response with this key, NoRecord when there is none.
FirstWithKey(objects, key, i) ==
    IF i > Len(objects) THEN NoRecord
    ELSE IF objects[i].object_key = key THEN objects[i]
    ELSE FirstWithKey(objects, key, i + 1)

\* A lookup in which the first record of a repeated key stays.
EarliestWithKey(objects, key, i) == FirstWithKey(objects, key, 1)

RECURSIVE LastWithKey(_, _, _)
\* buckets = {d["object_key"]: d for d in result["objects"]}: the last record
\* of the response with this key, NoRecord when there is none.
LastWithKey(objects, key, i) ==
    IF i = 0 THEN NoRecord
    ELSE IF objects[i].object_key = key THEN objects[i]
    ELSE LastWithKey(objects, key, i - 1)

\* A cursor update that keeps the first record of a key the response repeats.
MergeCursorFirstWins(updated_buckets, objects) ==
    [i \in 1..Len(updated_buckets) |->
        LET hit == FirstWithKey(objects, updated_buckets[i].object_key, 1)
        IN IF hit = NoRecord THEN updated_buckets[i] ELSE hit]

RECURSIVE NewKeys(_, _, _)
\* The records of the response, in list order, whose key the cursor lacks
\* (the last record of each such key).
NewKeys(updated_buckets, objects, i) ==
    IF i > Len(objects) THEN << >>
    ELSE IF /\ \A j \in 1..Len(updated_buckets) :
                  updated_buckets[j].object_key # objects[i].object_key
            /\ \A j \in (i + 1)..Len(objects) :
                  objects[j].object_key # objects[i].object_key
         THEN <<objects[i]>> \o NewKeys(updated_buckets, objects, i + 1)
         ELSE NewKeys(updated_buckets, objects, i + 1)

\* A cursor update that also subscribes to the keys it sees for the first
\* time.
MergeCursorAddsKeys(updated_buckets, objects) ==
    [i \in 1..Len(updated_buckets) |->
        LET hit == LastWithKey(objects, updated_buckets[i].object_key, Len(objects))
        IN IF hit = NoRecord THEN updated_buckets[i] ELSE hit]
      \o NewKeys(updated_buckets, objects, 1)

\* objects = [dict(d, **buckets.get(d["object_key"], {})) for d in updated_buckets]
MergeCursor(updated_buckets, objects) ==
    [i \in 1..Len(updated_buckets) |->
        LET hit == LastWithKey(objects, updated_buckets[i].object_key, Len(objects))
        IN IF hit = NoRecord THEN updated_buckets[i] ELSE hit]

\* A cursor update in a finally block: it runs whether the record loop
\* raised or not.
CursorAfterAnyBatch(updated_buckets, objects, raised) ==
    MergeCursor(updated_buckets, objects)

\* data["updated_buckets"] after the record loop: the cursor update follows
\* the loop inside the try block, so a loop that raised leaves the list as
\* it was.
CursorAfter(updated_buckets, objects, raised) ==
    IF raised THEN updated_buckets ELSE MergeCursor(updated_buckets, objects)

\* The "objects" list subscribe_for_data posts: key, revision and timestamp of
\* every cursor entry.
CursorRequest(updated_buckets) ==
    [i \in 1..Len(updated_buckets) |->
        [object_key |-> updated_buckets[i].object_key,
         object_revision |-> updated_buckets[i].object_revision,
         object_timestamp |-> updated_buckets[i].object_timestamp]]

\* ------------------------------------------------------------- exceptions
\* The direct and indirect base classes of every exception class the loop can
\* see.  The Nest classes are those of api/exceptions.py; the aiohttp and
\* builtin ones are as the except clauses import them.
Bases(cls) ==
    CASE cls = "GatewayTimeoutException" -> {"NestServiceException", "Exception"}
      [] cls = "BadGatewayException" -> {"NestServiceException", "Exception"}
      [] cls = "NestServiceException" -> {"Exception"}
      [] cls = "NestException" -> {"Exception"}
      [] cls = "BadCredentialsException" -> {"Exception"}
      [] cls = "NotAuthenticatedException" -> {"Exception"}
      [] cls = "ServerDisconnectedError" -> {"ClientError", "Exception"}
      [] cls = "ClientConnectorError" -> {"ClientError", "OSError", "Exception"}
      [] cls = "TimeoutError" -> {"Exception"}
      [] cls = "KeyError" -> {"Exception"}
      [] OTHER -> {}

IsInstance(cls, base) == cls = base \/ base \in Bases(cls)

\* The except clauses of _async_subscribe_for_data in source order: the class
\* caught, whether the handler re-authenticates, and the seconds it sleeps
\* before it registers the next task.
\* The same clauses with the catch-all ahead of the two Nest clauses.
ExceptClausesBadOrder ==
    << [cls |-> "ServerDisconnectedError", reauth |-> FALSE, sleep |-> 0],
       [cls |-> "TimeoutError", reauth |-> FALSE, sleep |-> 0],
       [cls |-> "ClientConnectorError", reauth |-> FALSE, sleep |-> 0],
       [cls |-> "NotAuthenticatedException", reauth |-> TRUE, sleep |-> 0],
       [cls |-> "Exception", reauth |-> FALSE, sleep |-> 60 * 5],
       [cls |-> "NestServiceException", reauth |-> FALSE, sleep |-> 60 * 2],
       [cls |-> "NestException", reauth |-> FALSE, sleep |-> 60] >>

ExceptClauses ==
    << [cls |-> "ServerDisconnectedError", reauth |-> FALSE, sleep |-> 0],
       [cls |-> "TimeoutError", reauth |-> FALSE, sleep |-> 0],
       [cls |-> "ClientConnectorError", reauth |-> FALSE, sleep |-> 0],
       [cls |-> "NotAuthenticatedException", reauth |-> TRUE, sleep |-> 0],
       [cls |-> "NestServiceException", reauth |-> FALSE, sleep |-> 60 * 2],
       [cls |-> "NestException", reauth |-> FALSE, sleep |-> 60],
       [cls |-> "Exception", reauth |-> FALSE, sleep |-> 60 * 5] >>

\* Python runs the first except clause whose class the exception is an
\* instance of; 0 when no clause matches and the exception leaves the task.
MatchingClause(cls) ==
    LET hits == {i \in 1..Len(ExceptClauses) : IsInstance(cls, ExceptClauses[i].cls)}
    IN IF hits = {} THEN 0 ELSE CHOOSE i \in hits : \A j \in hits : i <= j

\* What subscribe_for_data does with the HTTP response: the exception it
\* raises, or "ok" when it returns the parsed body.
SubscribeResult(status, isJson) ==
    CASE status = 401 -> "NotAuthenticatedException"
      [] status = 504 -> "GatewayTimeoutException"
      [] status = 502 -> "BadGatewayException"
      [] ~isJson -> "NestException"
      [] OTHER -> "ok"

\* What the POST of subscribe_for_data can end in: a transport failure raised
\* by aiohttp, or an HTTP response.
TransportErrors == {"ServerDisconnectedError", "TimeoutError", "ClientConnectorError"}
HttpStatuses == {200, 401, 500, 502, 504}

\* ---------------------------------------------------------- the snapshot
RECURSIVE PutKnownAreas(_, _, _, _)
\* The areas of the list that a record seen so far refers to.
PutKnownAreas(areas, wheres, known, i) ==
    IF i > Len(wheres) THEN areas
    ELSE PutKnownAreas(IF wheres[i].where_id \in known
                       THEN Put(areas, wheres[i].where_id, wheres[i].name) ELSE areas,
                       wheres, known, i + 1)

\* A snapshot loop that resolves areas as it goes: a "where" record names
\* only the areas of the thermostats and sensors listed before it.
SnapshotRecordKnownAreas(ed, bucket) ==
    LET key == bucket.object_key
        known == {ed.thermostats[k] : k \in DOMAIN ed.thermostats}
                   \cup {ed.sensors[k] : k \in DOMAIN ed.sensors}
    IN
    IF KeyType(key) = "where" THEN
        IF ~HasField(bucket.value, "wheres") THEN [entry |-> ed, raised |-> TRUE]
        ELSE [entry |-> [ed EXCEPT !.areas = PutKnownAreas(@, bucket.value.wheres, known, 1)],
              raised |-> FALSE]
    ELSE IF KeyType(key) \notin StoredTypes THEN [entry |-> ed, raised |-> FALSE]
    ELSE IndexRecord([ed EXCEPT !.devices = Put(@, key, bucket)], bucket)

\* One iteration of "for bucket in data['updated_buckets']" of
\* async_setup_entry: the same branches as the loop's, without a dispatch.
SnapshotRecord(ed, bucket) ==
    LET key == bucket.object_key IN
    IF KeyType(key) = "where" THEN
        IF ~HasField(bucket.value, "wheres") THEN [entry |-> ed, raised |-> TRUE]
        ELSE [entry |-> [ed EXCEPT !.areas = PutAreas(@, bucket.value.wheres, 1)],
              raised |-> FALSE]
    ELSE IF ~StoresRecord(key) THEN [entry |-> ed, raised |-> FALSE]
    ELSE IndexRecord([ed EXCEPT !.devices = Put(@, key, bucket)], bucket)

RECURSIVE SnapshotObjects(_, _, _)
SnapshotObjects(ed, buckets, i) ==
    IF i > Len(buckets) THEN [entry |-> ed, raised |-> FALSE]
    ELSE LET r == SnapshotRecord(ed, buckets[i])
         IN IF r.raised THEN r ELSE SnapshotObjects(r.entry, buckets, i + 1)

\* GoogleNestEntity.__init__: the area an entity built on the record gets.
\* where_id is the record's own field, else the thermostats index entry of
\* its id; dict.get returns None for a missing key.
AreaName(ed, bucket) ==
    LET id == KeyId(bucket.object_key)
        where_id == IF HasField(bucket.value, "where_id") THEN bucket.value.where_id
                    ELSE Get(ed.thermostats, id, "None")
    IN Get(ed.areas, where_id, "None")

\* self.sensors = {key: areas.get(where_id) for key, where_id in sensors.items()}
SensorAreas(ed) ==
    [key \in DOMAIN ed.sensors |-> Get(ed.areas, ed.sensors[key], "None")]

\* The object keys the backend may hold for an account, in the order the
\* snapshot lists them; "user" is a type the integration has no branch for.
KeyOrder ==
    << <<"structure", "a">>, <<"structure", "b">>, <<"link", "a">>,
       <<"device", "a">>, <<"where", "a">>,
       <<"rcs_settings", "a">>, <<"kryptonite", "a">>, <<"quartz", "a">>,
       <<"topaz", "a">>, <<"safety", "a">>, <<"shared", "a">>, <<"track", "a">>,
       <<"user", "a">> >>

AllKeys == {KeyOrder[i] : i \in 1..Len(KeyOrder)}

RECURSIVE InOrder(_, _)
\* The keys of a set as the list the snapshot returns them in.
InOrder(keys, i) ==
    IF i > Len(KeyOrder) THEN << >>
    ELSE IF KeyOrder[i] \in keys THEN <<KeyOrder[i]>> \o InOrder(keys, i + 1)
    ELSE InOrder(keys, i + 1)

\* ------------------------------------------------------------ credentials
NoAuth == [access_token |-> <<"none", 0>>, expiry_date |-> 0]
NoSession == [access_token |-> <<"none", 0>>, expires_in |-> 0,
              transport_url |-> "none"]

\* Seconds of validity the providers declare, in clock ticks.
AccessTtl == 1
SessionTtl == 1

\* GoogleAuthResponse.__post_init__: expiry_date = now() + expires_in.  The
\* token string is told apart by the instant it was issued at.
GoogleAuthResponse(t) ==
    [access_token |-> <<"access", t>>, expiry_date |-> t + AccessTtl]

\* The session object the /session endpoint returns; expires_in is the
\* expiry instant the server states, transport_url the urls.transport_url
\* it names.
NestResponse(t) ==
    [access_token |-> <<"session", t>>, expires_in |-> t + SessionTtl,
     transport_url |-> "session_transport"]

\* What authenticate is handed as its access_token argument and puts into
\* the Authorization header: nothing yet; the access_token string of a
\* credential; or the text of the credential object itself, which is what
\* f"Bearer {access_token}" makes of a GoogleAuthResponse.
NoBearer == [form |-> "none", token |-> <<"none", 0>>]
AccessTokenOf(auth) == [form |-> "access_token", token |-> auth.access_token]
TextOf(auth) == [form |-> "object", token |-> auth.access_token]

\* GoogleAuthResponse.is_expired
AuthIsExpired(auth, t) == auth.expiry_date <= t

\* datetime.datetime.now(): the wall clock of the host's time zone, without
\* a zone attached, at the instant utc of a host that is offset ticks ahead
\* of UTC.
LocalNow(utc, offset) == utc + offset

\* The hosts' offsets from UTC, in clock ticks.
UtcOffsets == {0 - 1, 0, 1}

\* "not self.auth or self.auth.is_expired()"
AuthCheck(client, t) == client.auth = NoAuth \/ AuthIsExpired(client.auth, t)

\* NestResponse.is_expired: strptime reads the GMT wall time of expires_in
\* and drops the zone; the result is compared with datetime.now().
SessionIsExpired(session, t) == session.expires_in <= t

\* "not self.nest_session or self.nest_session.is_expired()"
SessionCheck(client, t) ==
    client.nest_session = NoSession \/ SessionIsExpired(client.nest_session, t)

\* The credentials a config entry can hold: CONF_ISSUE_TOKEN, CONF_COOKIES and
\* CONF_REFRESH_TOKEN, each present or not.
ConfigEntries == [issue_token : BOOLEAN, cookies : BOOLEAN, refresh_token : BOOLEAN]

\* An entry configured with a refresh token only.
RefreshTokenEntry == [issue_token |-> FALSE, cookies |-> FALSE, refresh_token |-> TRUE]

\* The exchange async_setup_entry starts: issue token with cookies first,
\* else the refresh token, else it raises.
SetupExchange(conf) ==
    IF conf.issue_token /\ conf.cookies THEN "cookies"
    ELSE IF conf.refresh_token THEN "refresh_token"
    ELSE "no_credentials"

\* The exchange get_access_token starts: the refresh token first, else issue
\* token with cookies, else it raises Exception("No credentials").
GetAccessTokenExchange(client) ==
    IF client.refresh_token THEN "refresh_token"
    ELSE IF client.cookies THEN "cookies"
    ELSE "no_credentials"

\* NestClient.__init__: no credential, no access token, no session.  The
\* fields refresh_token and cookies say whether the client holds a refresh
\* token, and an issue token with its cookies.
NewClient ==
    [auth |-> NoAuth, nest_session |-> NoSession, transport_url |-> "none",
     refresh_token |-> FALSE, cookies |-> FALSE]

\* A setup that hands the client every credential of the entry.
SetupClientWithCredentials(conf) ==
    [NewClient EXCEPT !.refresh_token = conf.refresh_token,
                      !.cookies = conf.issue_token /\ conf.cookies]

\* The client async_setup_entry builds: NestClient(session, environment,
\* save_response_enabled), without a credential of the entry.
SetupClient(conf) == NewClient

NoData == [updated_buckets |-> << >>, transport_url |-> "none"]

\* ------------------------------------------------------ NestClient methods
\* What the token endpoint can answer: a token, or a body with an error
\* field; or the request fails in transport.
TokenReplies ==
    {[access_token |-> "token"], [error |-> "invalid_grant"],
     [error |-> "server_error"], [failure |-> "ClientConnectorError"]}

\* What a method call did: the client it leaves, the exception it raised
\* ("none": it returned), the session it returned, whether it sent its own
\* request and with which session credential.
Returns(client, session) ==
    [client |-> client, raised |-> "none", returned |-> session,
     requested |-> FALSE, sent |-> NoSession]
Raises(client, cls) ==
    [client |-> client, raised |-> cls, returned |-> NoSession,
     requested |-> FALSE, sent |-> NoSession]
\* The same outcome, reached after the method's own request was answered.
Asked(r) == [r EXCEPT !.requested = TRUE]

\* The exchange with every provider error reported alike.
GetAccessTokenFromRefreshTokenAnyError(client, supplied, reply, t) ==
    LET c == IF supplied THEN [client EXCEPT !.refresh_token = TRUE] ELSE client IN
    IF ~c.refresh_token THEN Raises(c, "Exception")
    ELSE IF HasField(reply, "failure") THEN Raises(c, reply.failure)
    ELSE IF HasField(reply, "error") THEN Asked(Raises(c, "Exception"))
    ELSE Asked(Returns([c EXCEPT !.auth = GoogleAuthResponse(t)], NoSession))

\* get_access_token_from_refresh_token(refresh_token): `supplied` says whether
\* the argument is given, `reply` is what the token endpoint answers.
GetAccessTokenFromRefreshToken(client, supplied, reply, t) ==
    LET c == IF supplied THEN [client EXCEPT !.refresh_token = TRUE] ELSE client IN
    IF ~c.refresh_token THEN Raises(c, "Exception")
    ELSE IF HasField(reply, "failure") THEN Raises(c, reply.failure)
    ELSE IF HasField(reply, "error")
         THEN IF reply.error = "invalid_grant"
              THEN Asked(Raises(c, "BadCredentialsException"))
              ELSE Asked(Raises(c, "Exception"))
    ELSE Asked(Returns([c EXCEPT !.auth = GoogleAuthResponse(t)], NoSession))

\* get_access_token_from_cookies(issue_token, cookies).  The request goes to
\* the issue_token argument: when it is not supplied the URL is None and the
\* request raises before anything is sent.
GetAccessTokenFromCookies(client, supplied, reply, t) ==
    LET c == IF supplied THEN [client EXCEPT !.cookies = TRUE] ELSE client IN
    IF ~c.cookies THEN Raises(c, "Exception")
    ELSE IF ~supplied THEN Raises(c, "TypeError")
    ELSE IF HasField(reply, "failure") THEN Raises(c, reply.failure)
    ELSE IF HasField(reply, "error")
         THEN IF reply.error = "invalid_grant"
              THEN Asked(Raises(c, "BadCredentialsException"))
              ELSE Asked(Raises(c, "Exception"))
    ELSE Asked(Returns([c EXCEPT !.auth = GoogleAuthResponse(t)], NoSession))

\* get_access_token: the exchange the held credential allows, then the debug
\* line that reads self.nest_session.access_token (AttributeError when the
\* client has no session yet).
GetAccessToken(client, reply, t) ==
    LET exchange == GetAccessTokenExchange(client)
        r == IF exchange = "refresh_token"
             THEN GetAccessTokenFromRefreshToken(client, TRUE, reply, t)
             ELSE IF exchange = "cookies"
             THEN GetAccessTokenFromCookies(client, TRUE, reply, t)
             ELSE Raises(client, "Exception")
    IN IF r.raised # "none" THEN r
       ELSE IF r.client.nest_session = NoSession THEN Raises(r.client, "AttributeError")
       ELSE r

\* What the auth proxy answers to the JWT request, and what the /session
\* endpoint answers: a session object; a body that is not of a JSON content
\* type; a JSON object without the fields of a session; a body of a JSON
\* content type that is not JSON; JSON that is not an object.
JwtReplies == {"jwt", "nojwt"}
SessionReplies == {"session", "not_json", "bad_fields", "invalid_json", "not_object"}

\* An authenticate that writes the new token into the session object it
\* holds instead of replacing the object.
AuthenticateInPlace(client, jwt, reply, t) ==
    IF jwt = "nojwt" \/ reply # "session"
    THEN Asked(Returns(client, client.nest_session))
    ELSE LET c == [client EXCEPT !.nest_session.access_token = NestResponse(t).access_token]
         IN Asked(Returns(c, c.nest_session))

\* authenticate(access_token).  Only ContentTypeError is caught around
\* response.json(); nest_response.get(...) runs outside any try; the failure
\* of NestResponse(**nest_response) is caught.
Authenticate(client, jwt, reply, t) ==
    IF jwt = "nojwt" THEN Asked(Returns(client, client.nest_session))
    ELSE CASE reply = "session" ->
                LET c == [client EXCEPT !.nest_session = NestResponse(t)]
                IN Asked(Returns(c, c.nest_session))
           [] reply = "not_json" -> Asked(Raises(client, "NestException"))
           [] reply = "bad_fields" -> Asked(Raises(client, "NestException"))
           [] reply = "invalid_json" -> Asked(Raises(client, "JSONDecodeError"))
           [] OTHER -> Asked(Raises(client, "AttributeError"))

\* The check every session-bound method starts with: the session is renewed
\* when missing or expired, the access token first when missing or expired.
EnsureSession(client, token, jwt, reply, t) ==
    IF client.nest_session = NoSession \/ SessionIsExpired(client.nest_session, t)
    THEN LET r == IF client.auth = NoAuth \/ AuthIsExpired(client.auth, t)
                  THEN GetAccessToken(client, token, t)
                  ELSE Returns(client, NoSession)
         IN IF r.raised # "none" THEN [r EXCEPT !.requested = FALSE]
            ELSE [Authenticate(r.client, jwt, reply, t) EXCEPT !.requested = FALSE]
    ELSE Returns(client, client.nest_session)

\* update_objects up to its POST, when nothing runs in between: the request
\* carries the session the client
\* holds after the check; reading it on a client without a session raises.
UpdateObjects(client, token, jwt, reply, t) ==
    LET r == EnsureSession(client, token, jwt, reply, t) IN
    IF r.raised # "none" THEN r
    ELSE IF r.client.nest_session = NoSession THEN Raises(r.client, "AttributeError")
    ELSE [Returns(r.client, NoSession) EXCEPT
              !.requested = TRUE, !.sent = r.client.nest_session]

\* get_camera_alerts up to its GET (the other camera calls start alike).
GetCameraAlerts(client, token, jwt, reply, t) ==
    LET r == EnsureSession(client, token, jwt, reply, t) IN
    IF r.raised # "none" THEN r
    ELSE IF r.client.nest_session = NoSession THEN Raises(r.client, "AttributeError")
    ELSE [Returns(r.client, NoSession) EXCEPT
              !.requested = TRUE, !.sent = r.client.nest_session]

\* ------------------------------------------------------------------ state
VARIABLES
    account,    \* the object keys the backend holds for the account
    config,     \* config_entry.data: which credentials the entry holds
    listeners,  \* how many update listeners the config entry has registered
    now,        \* the wall clock, datetime.now()
    hassData,   \* hass.data[DOMAIN][entry_id]: the generation of the entry
                \* data object stored there, NoGen when the key is absent
    gens,       \* setups of the config entry that built a client
    setup,      \* async_setup_entry: [pc, gen, result of the last run, bearer:
                \* the argument of its authenticate call]
    clients,    \* per setup, its NestClient
    entries,    \* per setup, its HomeAssistantGoogleNestData
    data,       \* per setup, the dict "data" handed from task to task
    tasks,      \* per setup, the running task of the chain it started
    last,       \* what the task that ended last did in its cycle, kept
                \* until the next task starts
    call        \* the last call of a NestClient method made from outside
                \* the loop: its inputs, what it did and, while it is
                \* suspended, where (pc) and the argument of its
                \* authenticate call (bearer) and the exchange its
                \* get_access_token started; for a credential check, the
                \* host's offset from UTC and whether the check asked for
                \* a renewal (renew)

vars == <<account, config, listeners, now, hassData, gens, setup, clients, entries, data, tasks, last, call>>

\* A task of the chain before it has run: pc is its position, entry the
\* entry data it looked up, request the session credential of the long-poll
\* request it issued.  Of its cycle so far: outcome is how the try block
\* ended ("ok" or the exception class), place where that exception was
\* raised, escaped the exception that left the task, delay the seconds
\* slept, calls the calls of _register_subscribe_task, reauth the session
\* the 401 handler's authenticate returned, log what each record did.
\* cursor is the "objects" list the request posted, url the transport URL
\* it was sent to and response the result["objects"] that came back; bearer
\* is the argument of the cycle's authenticate call, exchange the exchange
\* its get_access_token call started ("none": no call).
NoTask ==
    [pc |-> "none", entry |-> NoGen, request |-> NoSession, cursor |-> << >>,
     url |-> "none", bearer |-> NoBearer, exchange |-> "none",
     response |-> << >>, outcome |-> "none",
     escaped |-> "none", place |-> "none", delay |-> 0, calls |-> 0,
     reauth |-> NoSession, log |-> << >>]

NoLast ==
    [gen |-> NoGen, entry |-> NoGen, response |-> << >>, outcome |-> "none",
     escaped |-> "none",
     place |-> "none", delay |-> 0, calls |-> 0, reauth |-> NoSession, log |-> << >>]

\* The accounts the model is run over: one per object key the backend may
\* hold, and one holding two objects.
Accounts ==
    {{k} : k \in AllKeys} \cup {{<<"quartz", "a">>, <<"where", "a">>}}

\* No method call yet.
NoCall ==
    [op |-> "none", supplied |-> FALSE, token |-> [access_token |-> "token"],
     jwt |-> "jwt", reply |-> "session", before |-> NewClient, at |-> 0,
     raised |-> "none", returned |-> NoSession, requested |-> FALSE, sent |-> NoSession,
     pc |-> "done", bearer |-> NoBearer, exchange |-> "none",
     utcoffset |-> 0, renew |-> FALSE]

InitFor(accounts) ==
    /\ account \in accounts
    /\ config = RefreshTokenEntry
    /\ listeners = 0
    /\ call = NoCall
    /\ now = 0
    /\ hassData = NoGen
    /\ gens = 0
    /\ setup = [pc |-> "idle", gen |-> NoGen, result |-> "none", bearer |-> NoBearer]
    /\ clients = [g \in Gens |-> NewClient]
    /\ entries = [g \in Gens |-> EmptyEntry]
    /\ data = [g \in Gens |-> NoData]
    /\ tasks = [g \in Gens |-> NoTask]
    /\ last = NoLast

Init == InitFor(Accounts)

\* datetime.now() moves on.
Tick ==
    /\ now < MaxTime
    /\ now' = now + 1
    /\ UNCHANGED <<call, account, config, listeners, hassData, gens, setup, clients, entries, data, tasks, last>>

\* ------------------------------------------------------ async_setup_entry
\* How an access-token exchange can end: the token, the provider's
\* invalid_grant, another provider error, or a transport failure.
TokenOutcomes == {"ok", "BadCredentialsException", "Exception", "ClientConnectorError"}

\* How authenticate can end: a new session, no JWT (the held session is
\* returned), an unreadable /session body, or a transport failure.
AuthOutcomes == {"ok", "nojwt", "NestException", "ServerDisconnectedError"}

\* The except clauses around the startup exchanges.
SetupFailure(cls) ==
    IF IsInstance(cls, "TimeoutError") \/ IsInstance(cls, "ClientError")
    THEN "ConfigEntryNotReady"
    ELSE IF IsInstance(cls, "BadCredentialsException") THEN "ConfigEntryAuthFailed"
    ELSE "ConfigEntryNotReady"

\* Home Assistant sets an entry up when it is not loaded, and again after
\* ConfigEntryNotReady or an unload; never after ConfigEntryAuthFailed or an
\* unhandled error.
SetupStart ==
    /\ setup.pc = "idle"
    /\ hassData = NoGen
    /\ setup.result \notin {"ConfigEntryAuthFailed", "error"}
    /\ gens < MaxGen
    /\ gens' = gens + 1
    /\ setup' = [pc |-> "token", gen |-> gens + 1, result |-> "none", bearer |-> NoBearer]
    /\ clients' = [clients EXCEPT ![gens + 1] = SetupClient(config)]
    /\ UNCHANGED <<call, account, config, listeners, now, hassData, entries, data, tasks, last>>

\* The first setup of the entry, or its retry after ConfigEntryNotReady.
FirstSetup == gens = 0 /\ SetupStart

\* The setup that follows an unload: async_update_listener's async_reload.
Reload == gens > 0 /\ SetupStart

\* async_setup_entry raises: the client it built is dropped with it, and the
\* attempt does not count as a setup.
SetupEnds(result) ==
    /\ setup' = [pc |-> "idle", gen |-> NoGen, result |-> result, bearer |-> NoBearer]
    /\ clients' = [clients EXCEPT ![setup.gen] = NewClient]
    /\ gens' = gens - 1
    /\ UNCHANGED <<call, account, config, listeners, now, hassData, entries, data, tasks, last>>

\* The outcomes of an access-token exchange that is started; without a
\* credential to start one, the caller's Exception.
TokenOutcomesOf(exchange) ==
    IF exchange = "no_credentials" THEN {"Exception"} ELSE TokenOutcomes

\* get_access_token_from_cookies / get_access_token_from_refresh_token
\* returns: the exchange is the one the entry's credentials select, and the
\* client keeps the credential it was called with.
SetupToken ==
    /\ setup.pc = "token"
    /\ \E outcome \in TokenOutcomesOf(SetupExchange(config)) :
        IF outcome = "ok"
        THEN /\ clients' = [clients EXCEPT
                    ![setup.gen].auth = GoogleAuthResponse(now),
                    ![setup.gen].refresh_token = @ \/ SetupExchange(config) = "refresh_token",
                    ![setup.gen].cookies = @ \/ SetupExchange(config) = "cookies"]
             /\ setup' = [setup EXCEPT !.pc = "authenticate",
                                        !.bearer = AccessTokenOf(GoogleAuthResponse(now))]
             /\ UNCHANGED <<call, account, config, listeners, now, hassData, gens, entries, data, tasks, last>>
        ELSE SetupEnds(SetupFailure(outcome))

\* client.authenticate(auth.access_token) returns.
SetupAuthenticate ==
    /\ setup.pc = "authenticate"
    /\ \E outcome \in AuthOutcomes :
        CASE outcome = "ok" ->
               /\ clients' = [clients EXCEPT ![setup.gen].nest_session = NestResponse(now)]
               /\ setup' = [setup EXCEPT !.pc = "first_data"]
               /\ UNCHANGED <<call, account, config, listeners, now, hassData, gens, entries, data, tasks, last>>
          [] outcome = "nojwt" ->
               \* nest is None: nest.access_token raises outside the try.
               SetupEnds("error")
          [] OTHER -> SetupEnds(SetupFailure(outcome))

\* The snapshots get_first_data can return for the account: some of its
\* objects, each at its first revision.
FirstData(keys) ==
    {[i \in 1..Len(InOrder(S, 1)) |-> Bucket(InOrder(S, 1)[i], 1, f[InOrder(S, 1)[i]])] :
        <<S, f>> \in {sf \in
            {<<T, g>> : T \in SUBSET keys \ {{}},
                        g \in [keys -> UNION {ValuesOf(KeyType(k)) : k \in keys}]} :
            \A k \in sf[1] : sf[2][k] \in ValuesOf(KeyType(k))}}

\* The snapshot loop over data["updated_buckets"] and what follows it up to
\* the await on the platforms' setup.
ProcessSnapshot(buckets) ==
    LET r == SnapshotObjects(EmptyEntry, buckets, 1) IN
    IF r.raised THEN SetupEnds("error")
    ELSE /\ entries' = [entries EXCEPT ![setup.gen] = r.entry]
         /\ data' = [data EXCEPT ![setup.gen] =
                        [updated_buckets |-> buckets, transport_url |-> "transport"]]
         /\ clients' = [clients EXCEPT ![setup.gen].transport_url = "transport"]
         /\ hassData' = setup.gen
         /\ listeners' = listeners + 1
         /\ setup' = [setup EXCEPT !.pc = "platforms"]
         /\ UNCHANGED <<call, account, config, now, gens, tasks, last>>

\* get_first_data returns, the snapshot is processed and the entry data is
\* stored in hass.data with the undo function of the update listener it
\* registers; the task then awaits the platforms' setup.
SetupFirstData ==
    /\ setup.pc = "first_data"
    /\ \/ SetupEnds("error")    \* the request or the body's parsing raises
       \/ \E buckets \in FirstData(account) : ProcessSnapshot(buckets)

\* The orders a list can come in.
Orderings(list) ==
    {[i \in 1..Len(list) |-> list[p[i]]] :
        p \in {q \in [1..Len(list) -> 1..Len(list)] :
                  \A i, j \in 1..Len(list) : q[i] = q[j] => i = j}}

\* The same step when the backend lists the objects of the snapshot in an
\* order of its own.
SetupFirstDataAnyOrder ==
    /\ setup.pc = "first_data"
    /\ \/ SetupEnds("error")
       \/ \E listed \in FirstData(account) :
            \E buckets \in Orderings(listed) : ProcessSnapshot(buckets)

\* _register_subscribe_task: asyncio.create_task on a new cycle of the chain.
RegisterSubscribeTask(task) ==
    [task EXCEPT !.pc = "scheduled", !.calls = @ + 1]

\* async_forward_entry_setups returns and the first task is registered.
SetupFinish ==
    /\ setup.pc = "platforms"
    /\ tasks' = [tasks EXCEPT ![setup.gen] = [NoTask EXCEPT !.pc = "scheduled"]]
    /\ setup' = [pc |-> "idle", gen |-> NoGen, result |-> "ok", bearer |-> NoBearer]
    /\ UNCHANGED <<call, account, config, listeners, now, hassData, gens, clients, entries, data, last>>

\* An unload that undoes the update listener before it looks at the result
\* of the platforms' unload.
AsyncUnloadEntryUndoesFirst(unload_ok, gen, registered) ==
    [hassData |-> IF unload_ok THEN NoGen ELSE gen,
     listeners |-> registered - 1, returns |-> unload_ok]

\* async_unload_entry once async_unload_platforms has returned unload_ok:
\* what hass.data holds under the entry id, how many update listeners are
\* registered, and the value returned.
AsyncUnloadEntry(unload_ok, gen, registered) ==
    IF unload_ok
    THEN [hassData |-> NoGen, listeners |-> registered - 1, returns |-> TRUE]
    ELSE [hassData |-> gen, listeners |-> registered, returns |-> FALSE]

\* async_unload_entry: when the platforms unload, the listener is undone and
\* the entry data is popped.  Nothing here touches the subscribe task.
Unload ==
    /\ setup.pc = "idle"
    /\ hassData # NoGen
    /\ \E unload_ok \in BOOLEAN :
        LET r == AsyncUnloadEntry(unload_ok, hassData, listeners) IN
        /\ hassData' = r.hassData
        /\ listeners' = r.listeners
        /\ setup' = [setup EXCEPT !.result = IF r.returns THEN "unloaded" ELSE "unload_failed"]
    /\ UNCHANGED <<call, account, config, now, gens, clients, entries, data, tasks, last>>

\* ----------------------------------------------- _async_subscribe_for_data
\* The records a long-poll response can carry for the account.
ResponseBuckets == UNION {BucketsOf(k) : k \in account}

RECURSIVE SeqsUpTo(_, _)
\* The lists of at most n elements of S.
SeqsUpTo(S, n) ==
    IF n = 0 THEN {<< >>}
    ELSE LET shorter == SeqsUpTo(S, n - 1)
         IN shorter \cup {Append(q, x) : q \in {p \in shorter : Len(p) = n - 1}, x \in S}

\* The exceptions client.subscribe_for_data can raise.
PollFailures ==
    (TransportErrors \cup {SubscribeResult(st, js) : st \in HttpStatuses, js \in BOOLEAN})
        \ {"ok"}

\* The exception leaves the coroutine: the task ends without a successor.
Escapes(task, cls, place) ==
    [task EXCEPT !.pc = "dead", !.escaped = cls, !.place = place]

\* An exception raised inside the try block reaches the except clauses.
Raise(task, cls, place) ==
    LET i == MatchingClause(cls)
        t == [task EXCEPT !.outcome = cls, !.place = place]
    IN IF i = 0 THEN Escapes(task, cls, place)
       ELSE IF ExceptClauses[i].reauth THEN [t EXCEPT !.pc = "handler_token"]
       ELSE IF ExceptClauses[i].sleep > 0
            THEN [t EXCEPT !.pc = "sleeping", !.delay = ExceptClauses[i].sleep]
       ELSE RegisterSubscribeTask(t)

\* A request sent to the transport URL the held session names.
IssueRequestSessionUrl(task, client, transport_url, updated_buckets) ==
    [task EXCEPT !.pc = "polling", !.request = client.nest_session,
                 !.url = client.nest_session.transport_url,
                 !.cursor = CursorRequest(updated_buckets)]

\* The call of client.subscribe_for_data: its arguments are read when the
\* call is made.
IssueRequest(task, client, transport_url, updated_buckets) ==
    [task EXCEPT !.pc = "polling", !.request = client.nest_session,
                 !.url = transport_url,
                 !.cursor = CursorRequest(updated_buckets)]

\* What is kept of a task when it ends.
Summary(g, task) ==
    [gen |-> g, entry |-> task.entry, response |-> task.response,
     outcome |-> task.outcome,
     escaped |-> task.escaped, place |-> task.place, delay |-> task.delay,
     calls |-> task.calls, reauth |-> task.reauth, log |-> task.log]

\* The chain moves to the state `task`; when that ends the running task, the
\* successor it registered (if any) is the chain's task from then on.
Step(g, task) ==
    IF task.pc \in {"scheduled", "dead"}
    THEN /\ tasks' = [tasks EXCEPT ![g] = [NoTask EXCEPT !.pc = task.pc]]
         /\ last' = Summary(g, task)
    ELSE /\ tasks' = [tasks EXCEPT ![g] = task]
         /\ UNCHANGED last

\* A task of the chain starts: the entry data lookup, the credential check,
\* and either the token exchange or the long-poll request.
CycleStart(g) ==
    /\ tasks[g].pc = "scheduled"
    /\ LET t == [NoTask EXCEPT !.pc = "running"] IN
       IF hassData = NoGen
       THEN \* hass.data[DOMAIN][entry_id] raises KeyError before the try
            Step(g, Escapes(t, "KeyError", "lookup"))
       ELSE LET c == clients[hassData]
                te == [t EXCEPT !.entry = hassData]
            IN /\ tasks' = [tasks EXCEPT ![g] =
                               IF c.auth = NoAuth \/ AuthIsExpired(c.auth, now)
                               THEN [te EXCEPT !.pc = "token"]
                               ELSE IssueRequest(te, c, data[g].transport_url,
                                                 data[g].updated_buckets)]
               /\ last' = NoLast
    /\ UNCHANGED <<call, account, config, listeners, now, hassData, gens, setup, clients, entries, data>>

\* "auth = await entry_data.client.get_access_token()" returns; on success
\* the loop calls authenticate(auth) with the GoogleAuthResponse object.
CycleToken(g) ==
    /\ tasks[g].pc = "token"
    /\ LET exchange == GetAccessTokenExchange(clients[tasks[g].entry])
           t == [tasks[g] EXCEPT !.exchange = exchange]
       IN \E outcome \in TokenOutcomesOf(exchange) :
            IF outcome = "ok"
            THEN /\ clients' = [clients EXCEPT ![t.entry].auth = GoogleAuthResponse(now)]
                 /\ Step(g, [t EXCEPT !.pc = "authenticate",
                                      !.bearer = TextOf(GoogleAuthResponse(now))])
            ELSE /\ Step(g, Raise(t, outcome, "credential_check"))
                 /\ UNCHANGED clients
    /\ UNCHANGED <<call, account, config, listeners, now, hassData, gens, setup, entries, data>>

\* "client.nest_session = await client.authenticate(auth)" returns.  The
\* bearer value sent is the text of the object, not a token the auth proxy
\* knows, so no JWT comes back and authenticate returns the held session.
CycleAuthenticate(g) ==
    /\ tasks[g].pc = "authenticate"
    /\ \E outcome \in AuthOutcomes \ {"ok"} :
        IF outcome = "nojwt"
        THEN Step(g, IssueRequest(tasks[g], clients[tasks[g].entry],
                                  data[g].transport_url, data[g].updated_buckets))
        ELSE Step(g, Raise(tasks[g], outcome, "credential_check"))
    /\ UNCHANGED <<call, account, config, listeners, now, hassData, gens, setup, clients, entries, data>>

\* The long-poll request ends in a transport failure or in a response that
\* subscribe_for_data turns into an exception.
PollFails(g) ==
    /\ tasks[g].pc = "polling"
    /\ \E cls \in PollFailures : Step(g, Raise(tasks[g], cls, "request"))
    /\ UNCHANGED <<call, account, config, listeners, now, hassData, gens, setup, clients, entries, data>>

\* subscribe_for_data returns a body without "objects": result["objects"]
\* raises KeyError before any record is applied.
PollReturnsNoObjects(g) ==
    /\ tasks[g].pc = "polling"
    /\ Step(g, Raise(tasks[g], "KeyError", "apply"))
    /\ UNCHANGED <<call, account, config, listeners, now, hassData, gens, setup, clients, entries, data>>

\* subscribe_for_data returns objects: the record loop, the cursor update and
\* the registration of the next task run without an await in between.
PollReturns(g) ==
    /\ tasks[g].pc = "polling"
    /\ \E objects \in SeqsUpTo(ResponseBuckets, MaxBatch) :
        LET e == tasks[g].entry
            r == ApplyObjects(entries[e], objects, 1, << >>)
            t == [tasks[g] EXCEPT !.log = r.log, !.response = objects]
        IN /\ entries' = [entries EXCEPT ![e] = r.entry]
           /\ data' = [data EXCEPT ![g].updated_buckets = CursorAfter(@, objects, r.raised)]
           /\ IF r.raised
              THEN Step(g, Raise(t, "KeyError", "apply"))
              ELSE Step(g, RegisterSubscribeTask([t EXCEPT !.outcome = "ok"]))
    /\ UNCHANGED <<call, account, config, listeners, now, hassData, gens, setup, clients>>

\* In the 401 handler, "await entry_data.client.get_access_token()" returns.
\* An exception raised here is raised inside an except clause: no other
\* clause of the same try catches it.
HandlerToken(g) ==
    /\ tasks[g].pc = "handler_token"
    /\ LET exchange == GetAccessTokenExchange(clients[tasks[g].entry])
           t == [tasks[g] EXCEPT !.exchange = exchange]
       IN \E outcome \in TokenOutcomesOf(exchange) :
            IF outcome = "ok"
            THEN /\ clients' = [clients EXCEPT ![t.entry].auth = GoogleAuthResponse(now)]
                 /\ Step(g, [t EXCEPT !.pc = "handler_authenticate",
                                      !.bearer = AccessTokenOf(GoogleAuthResponse(now))])
            ELSE /\ Step(g, Escapes(t, outcome, "reauthentication"))
                 /\ UNCHANGED clients
    /\ UNCHANGED <<call, account, config, listeners, now, hassData, gens, setup, entries, data>>

\* In the 401 handler, "await client.authenticate(client.auth.access_token)"
\* returns, and the next task is registered.
HandlerAuthenticate(g) ==
    /\ tasks[g].pc = "handler_authenticate"
    /\ \E outcome \in AuthOutcomes :
        CASE outcome = "ok" ->
               /\ clients' = [clients EXCEPT ![tasks[g].entry].nest_session = NestResponse(now)]
               /\ Step(g, RegisterSubscribeTask([tasks[g] EXCEPT !.reauth = NestResponse(now)]))
          [] outcome = "nojwt" ->
               /\ Step(g, RegisterSubscribeTask(
                            [tasks[g] EXCEPT !.reauth = clients[tasks[g].entry].nest_session]))
               /\ UNCHANGED clients
          [] OTHER ->
               /\ Step(g, Escapes(tasks[g], outcome, "reauthentication"))
               /\ UNCHANGED clients
    /\ UNCHANGED <<call, account, config, listeners, now, hassData, gens, setup, entries, data>>

\* asyncio.sleep returns in a handler that pauses, and the next task is
\* registered.
Wake(g) ==
    /\ tasks[g].pc = "sleeping"
    /\ Step(g, RegisterSubscribeTask(tasks[g]))
    /\ UNCHANGED <<call, account, config, listeners, now, hassData, gens, setup, clients, entries, data>>

Cycle(g) ==
    \/ CycleStart(g)
    \/ CycleToken(g)
    \/ CycleAuthenticate(g)
    \/ PollFails(g)
    \/ PollReturnsNoObjects(g)
    \/ PollReturns(g)
    \/ HandlerToken(g)
    \/ HandlerAuthenticate(g)
    \/ Wake(g)

\* One setup of the entry, its subscription loop and its unload, over every
\* account.
Next ==
    \/ Tick
    \/ FirstSetup
    \/ SetupToken
    \/ SetupAuthenticate
    \/ SetupFirstData
    \/ SetupFinish
    \/ Unload
    \/ \E g \in Gens : Cycle(g)

Spec == Init /\ [][Next]_vars

\* Setups, unloads and reloads of the entry (a setup after an unload) with
\* the loops they start, over an account that holds one object and within
\* the lifetime of the first credentials (the clock stands still).
ReloadAccounts == {{<<"topaz", "a">>}}

InitReload == InitFor(ReloadAccounts)

NextReload ==
    \/ FirstSetup
    \/ Reload
    \/ SetupToken
    \/ SetupAuthenticate
    \/ SetupFirstData
    \/ SetupFinish
    \/ Unload
    \/ \E g \in Gens :
        \/ CycleStart(g)
        \/ PollFails(g)
        \/ PollReturnsNoObjects(g)
        \/ PollReturns(g)
        \/ HandlerToken(g)
        \/ HandlerAuthenticate(g)
        \/ Wake(g)

SpecReload == InitReload /\ [][NextReload]_vars

\* One setup of the entry and its loop while the requests are answered, over
\* accounts that hold several objects listed in any order: a thermostat, a
\* temperature sensor and the areas; a smoke detector and an object of a type
\* the integration has no branch for; a structure and the link record of a
\* thermostat.  The clock stands still.
SnapshotAccounts ==
    {{<<"device", "a">>, <<"kryptonite", "a">>, <<"where", "a">>},
     {<<"user", "a">>, <<"topaz", "a">>},
     {<<"structure", "b">>, <<"link", "a">>}}

InitSnapshot == InitFor(SnapshotAccounts)

NextSnapshot ==
    \/ FirstSetup
    \/ SetupToken
    \/ SetupAuthenticate
    \/ SetupFirstDataAnyOrder
    \/ SetupFinish
    \/ \E g \in Gens :
        \/ CycleStart(g)
        \/ PollReturns(g)

SpecSnapshot == InitSnapshot /\ [][NextSnapshot]_vars

\* A NestClient as its constructor makes it, with or without a refresh token
\* and with or without an issue token and cookies, and the calls of its
\* methods in any order while the clock runs.
InitClient ==
    /\ account = {<<"topaz", "a">>}
    /\ config = RefreshTokenEntry
    /\ listeners = 0
    /\ now = 0
    /\ hassData = NoGen
    /\ gens = 0
    /\ setup = [pc |-> "idle", gen |-> NoGen, result |-> "none", bearer |-> NoBearer]
    /\ \E r \in BOOLEAN, c \in BOOLEAN :
          clients = [g \in Gens |->
                        IF g = 1 THEN [NewClient EXCEPT !.refresh_token = r, !.cookies = c]
                        ELSE NewClient]
    /\ entries = [g \in Gens |-> EmptyEntry]
    /\ data = [g \in Gens |-> NoData]
    /\ tasks = [g \in Gens |-> NoTask]
    /\ last = NoLast
    /\ call = NoCall

\* The method call `op` with these inputs ended as `r`.
Called(op, supplied, token, jwt, reply, r) ==
    /\ clients' = [clients EXCEPT ![1] = r.client]
    /\ call' = [op |-> op, supplied |-> supplied, token |-> token, jwt |-> jwt,
                reply |-> reply, before |-> clients[1], at |-> now,
                raised |-> r.raised, returned |-> r.returned,
                requested |-> r.requested, sent |-> r.sent,
                pc |-> "done", bearer |-> NoBearer, exchange |-> "none",
                utcoffset |-> 0, renew |-> FALSE]

CallGetAccessTokenFromRefreshToken ==
    /\ \E supplied \in BOOLEAN, token \in TokenReplies :
           Called("get_access_token_from_refresh_token", supplied, token, NoCall.jwt, NoCall.reply,
                  GetAccessTokenFromRefreshToken(clients[1], supplied, token, now))
    /\ UNCHANGED <<account, config, listeners, now, hassData, gens, setup, entries, data, tasks, last>>

CallGetAccessTokenFromCookies ==
    /\ \E supplied \in BOOLEAN, token \in TokenReplies :
           Called("get_access_token_from_cookies", supplied, token, NoCall.jwt, NoCall.reply,
                  GetAccessTokenFromCookies(clients[1], supplied, token, now))
    /\ UNCHANGED <<account, config, listeners, now, hassData, gens, setup, entries, data, tasks, last>>

CallAuthenticate ==
    /\ \E jwt \in JwtReplies, reply \in SessionReplies :
           Called("authenticate", FALSE, NoCall.token, jwt, reply,
                  Authenticate(clients[1], jwt, reply, now))
    /\ UNCHANGED <<account, config, listeners, now, hassData, gens, setup, entries, data, tasks, last>>

CallUpdateObjects ==
    /\ \E token \in TokenReplies, jwt \in JwtReplies, reply \in SessionReplies :
           Called("update_objects", FALSE, token, jwt, reply,
                  UpdateObjects(clients[1], token, jwt, reply, now))
    /\ UNCHANGED <<account, config, listeners, now, hassData, gens, setup, entries, data, tasks, last>>

CallGetCameraAlerts ==
    /\ \E token \in TokenReplies, jwt \in JwtReplies, reply \in SessionReplies :
           Called("get_camera_alerts", FALSE, token, jwt, reply,
                  GetCameraAlerts(clients[1], token, jwt, reply, now))
    /\ UNCHANGED <<account, config, listeners, now, hassData, gens, setup, entries, data, tasks, last>>

NextClient ==
    \/ Tick
    \/ CallGetAccessTokenFromRefreshToken
    \/ CallGetAccessTokenFromCookies
    \/ CallAuthenticate
    \/ CallUpdateObjects
    \/ CallGetCameraAlerts

SpecClient == InitClient /\ [][NextClient]_vars

\* ------------------------------------------- update_objects beside the loop
\* An entity calls client.update_objects while the loop runs.  The method is
\* a coroutine of the same event loop: it is suspended in get_access_token,
\* in authenticate and in its POST, and the loop's tasks run in between.
\* The entity's client is the one of the entry that is set up.
OpFrame == UNCHANGED <<account, config, listeners, now, hassData, gens, setup, entries, data, tasks, last>>

\* The call ends by raising.
OpRaises(cls) == [call EXCEPT !.pc = "done", !.raised = cls]

\* The call starts: the check of the session and of the access token, up to
\* the first await.
OpStart ==
    /\ call.pc = "done"
    /\ hassData # NoGen
    /\ setup.pc = "idle"
    /\ LET c == clients[hassData]
           fresh == [NoCall EXCEPT !.op = "update_objects", !.before = c, !.at = now]
       IN call' =
            IF c.nest_session = NoSession \/ SessionIsExpired(c.nest_session, now)
            THEN IF c.auth = NoAuth \/ AuthIsExpired(c.auth, now)
                 THEN [fresh EXCEPT !.pc = "token"]
                 ELSE [fresh EXCEPT !.pc = "authenticate", !.bearer = AccessTokenOf(c.auth)]
            ELSE [fresh EXCEPT !.pc = "request", !.requested = TRUE, !.sent = c.nest_session]
    /\ UNCHANGED clients
    /\ OpFrame

\* "await self.get_access_token()" returns or raises; authenticate is then
\* called with self.auth.access_token.
OpToken ==
    /\ call.pc = "token"
    /\ \E reply \in TokenReplies :
        LET r == GetAccessToken(clients[hassData], reply, now)
            exchange == GetAccessTokenExchange(clients[hassData])
        IN
        /\ clients' = [clients EXCEPT ![hassData] = r.client]
        /\ call' = IF r.raised # "none"
                   THEN [OpRaises(r.raised) EXCEPT !.token = reply, !.exchange = exchange]
                   ELSE [call EXCEPT !.pc = "authenticate", !.token = reply,
                                     !.exchange = exchange,
                                     !.bearer = AccessTokenOf(r.client.auth)]
    /\ OpFrame

\* "await self.authenticate(self.auth.access_token)" returns or raises; the
\* POST follows without an await in between, with the session the client
\* holds then (self.nest_session.userid raises when it holds none).
OpAuthenticate ==
    /\ call.pc = "authenticate"
    /\ \E jwt \in JwtReplies, reply \in SessionReplies :
        LET r == Authenticate(clients[hassData], jwt, reply, now)
            c == [call EXCEPT !.jwt = jwt, !.reply = reply, !.returned = r.returned]
        IN /\ clients' = [clients EXCEPT ![hassData] = r.client]
           /\ call' = IF r.raised # "none"
                      THEN [c EXCEPT !.pc = "done", !.raised = r.raised]
                      ELSE IF r.client.nest_session = NoSession
                      THEN [c EXCEPT !.pc = "done", !.raised = "AttributeError"]
                      ELSE [c EXCEPT !.pc = "request", !.requested = TRUE,
                                     !.sent = r.client.nest_session]
    /\ OpFrame

\* The POST is answered: 401 raises NotAuthenticatedException, anything else
\* ends the call; the credentials are not touched.
OpResponds ==
    /\ call.pc = "request"
    /\ \E status \in {200, 401} :
        call' = IF status = 401 THEN OpRaises("NotAuthenticatedException")
                ELSE [call EXCEPT !.pc = "done"]
    /\ UNCHANGED clients
    /\ OpFrame

\* One setup of the entry, its loop with every failure of the request and
\* the re-authentication of the 401 handler, and calls of update_objects
\* beside it, while the clock runs; the account holds one object.
NextCredentials ==
    \/ Tick
    \/ FirstSetup
    \/ SetupToken
    \/ SetupAuthenticate
    \/ SetupFirstData
    \/ SetupFinish
    \/ OpStart
    \/ OpToken
    \/ OpAuthenticate
    \/ OpResponds
    \/ \E g \in Gens :
        \/ CycleStart(g)
        \/ CycleToken(g)
        \/ CycleAuthenticate(g)
        \/ PollFails(g)
        \/ PollReturns(g)
        \/ HandlerToken(g)
        \/ HandlerAuthenticate(g)
        \/ Wake(g)

InitCredentials == InitFor(ReloadAccounts)

\* The same over every combination of credentials a config entry can hold.
InitConfig ==
    /\ account \in ReloadAccounts
    /\ config \in ConfigEntries
    /\ listeners = 0
    /\ call = NoCall
    /\ now = 0
    /\ hassData = NoGen
    /\ gens = 0
    /\ setup = [pc |-> "idle", gen |-> NoGen, result |-> "none", bearer |-> NoBearer]
    /\ clients = [g \in Gens |-> NewClient]
    /\ entries = [g \in Gens |-> EmptyEntry]
    /\ data = [g \in Gens |-> NoData]
    /\ tasks = [g \in Gens |-> NoTask]
    /\ last = NoLast

\* --------------------------------------------- the checks on a host's clock
\* A client on a host in some time zone: `now` is the instant in UTC, the
\* session's expires_in is the server's GMT wall time, and the host reads
\* its own wall clock.
InitExpiry ==
    /\ account = {<<"topaz", "a">>}
    /\ config = RefreshTokenEntry
    /\ listeners = 0
    /\ now = 0
    /\ hassData = NoGen
    /\ gens = 0
    /\ setup = [pc |-> "idle", gen |-> NoGen, result |-> "none", bearer |-> NoBearer]
    /\ clients = [g \in Gens |-> NewClient]
    /\ entries = [g \in Gens |-> EmptyEntry]
    /\ data = [g \in Gens |-> NoData]
    /\ tasks = [g \in Gens |-> NoTask]
    /\ last = NoLast
    /\ \E offset \in UtcOffsets : call = [NoCall EXCEPT !.utcoffset = offset]

ExpiryFrame == UNCHANGED <<account, config, listeners, now, hassData, gens, setup, entries, data, tasks, last>>

\* The instant passes on the host as well.
HostTick ==
    /\ now < MaxTime
    /\ now' = now + 1
    /\ UNCHANGED <<call, account, config, listeners, hassData, gens, setup, clients, entries, data, tasks, last>>

\* A token exchange succeeds: GoogleAuthResponse.__post_init__ reads the
\* host's clock.
HostGetsToken ==
    /\ clients' = [clients EXCEPT
                      ![1].auth = GoogleAuthResponse(LocalNow(now, call.utcoffset))]
    /\ UNCHANGED call
    /\ ExpiryFrame

\* A session exchange succeeds: the server states the expiry in GMT.
HostGetsSession ==
    /\ clients' = [clients EXCEPT ![1].nest_session = NestResponse(now)]
    /\ UNCHANGED call
    /\ ExpiryFrame

\* The check on the access credential is evaluated.
HostChecksAuth ==
    /\ call' = [call EXCEPT !.op = "auth_check", !.before = clients[1], !.at = now,
                            !.renew = AuthCheck(clients[1], LocalNow(now, call.utcoffset))]
    /\ UNCHANGED clients
    /\ ExpiryFrame

\* The check on the session is evaluated.
HostChecksSession ==
    /\ call' = [call EXCEPT !.op = "session_check", !.before = clients[1], !.at = now,
                            !.renew = SessionCheck(clients[1], LocalNow(now, call.utcoffset))]
    /\ UNCHANGED clients
    /\ ExpiryFrame

NextExpiry ==
    \/ HostTick
    \/ HostGetsToken
    \/ HostGetsSession
    \/ HostChecksAuth
    \/ HostChecksSession

SpecExpiry == InitExpiry /\ [][NextExpiry]_vars

SpecCredentials == InitCredentials /\ [][NextCredentials]_vars

SpecConfig == InitConfig /\ [][NextCredentials]_vars

\* ------------------------------------------------------ the loop under fairness
\* One setup of the entry and its loop, which is never unloaded, while the
\* clock runs; the account holds one object.
InitLive == InitFor(ReloadAccounts)

NextLive ==
    \/ Tick
    \/ FirstSetup
    \/ SetupToken
    \/ SetupAuthenticate
    \/ SetupFirstData
    \/ SetupFinish
    \/ \E g \in Gens : Cycle(g)

\* The updates the server can have for the account's object.
Updates == BucketsOf(<<"topaz", "a">>)

\* An access-token exchange of the loop succeeds.
TokenSucceeds(g) ==
    /\ CycleToken(g) \/ HandlerToken(g)
    /\ tasks'[g].pc \in {"authenticate", "handler_authenticate"}

\* A session exchange of the loop returns a session: the 401 handler goes
\* on to register the next task, the credential check to its request.
AuthenticateSucceeds(g) ==
    /\ CycleAuthenticate(g) \/ HandlerAuthenticate(g)
    /\ tasks'[g].pc \in {"polling", "scheduled"}

\* The server answers the long-poll request with the update.
Delivers(g, update) ==
    /\ PollReturns(g)
    /\ last'.response = <<update>>

\* The event loop runs every task that is ready, every await of the loop
\* returns or raises, and every sleep ends; the server goes on answering
\* the requests, and answers with each update it has again and again; the
\* exchanges of a re-authentication succeed again and again.
Fairness ==
    \A g \in Gens :
        /\ WF_vars(Cycle(g))
        /\ SF_vars(TokenSucceeds(g))
        /\ SF_vars(AuthenticateSucceeds(g))
        /\ \A update \in Updates : SF_vars(Delivers(g, update))

SpecLive == InitLive /\ [][NextLive]_vars /\ Fairness

\* ================================================================= claims
LastLog == {last.log[i] : i \in 1..Len(last.log)}

\* C1: at most one long-poll request of the account is in flight at any
\* time, over setups, loop cycles, unloads and reloads.
C1_OneRequestInFlight ==
    Cardinality({g \in Gens : tasks[g].pc = "polling"}) <= 1

\* C2: a failure in the credential check, in the long-poll request, while
\* applying the response or in the 401 handler's re-authentication never
\* leaves the task as an exception.
C2_NoExceptionEscapes ==
    last.place \in {"credential_check", "request", "apply", "reauthentication"}
        => last.escaped = "none"

\* C3: a cycle that reached an outcome (success or any exception of the try
\* block) called _register_subscribe_task exactly once.
C3_ExactlyOneSuccessor ==
    (last.gen # NoGen /\ last.outcome # "none") => last.calls = 1

\* C4: the revision stored for a key never decreases.
C4_RevisionsNeverDecrease ==
    [][\A g \in Gens : \A k \in DOMAIN entries[g].devices :
          k \in DOMAIN entries'[g].devices =>
              entries'[g].devices[k].object_revision
                  >= entries[g].devices[k].object_revision]_vars

\* C5: a record whose revision is not above the stored one changes neither
\* the store nor the indices and is not reported as changed.
C5_StaleRecordIsNoOp ==
    \A e \in LastLog :
        e.revision \in {"older", "same"} => ~e.changed /\ ~e.replaced /\ ~e.notified

\* C6: no notification is dispatched for a record that left the stored state
\* as it was.
C6_NoNotificationForNoOp ==
    \A e \in LastLog : e.notified => e.changed

\* C7: every record that changes the stored state, of whatever type the loop
\* applies ("where" included), is notified in the same cycle with the record
\* stored.
C7_ChangedRecordNotified ==
    \A e \in LastLog :
        (e.type \in AppliedTypes /\ e.changed) => e.notified /\ e.carried = "stored"

\* What the loop does guarantee about notifications: every record of a type
\* it stores whose branch ran without raising is notified in the same cycle
\* with the record now stored; a "where" record is never notified, nor is a
\* record whose branch raised.
StoredRecordNotified ==
    \A e \in LastLog :
        /\ (e.type \in StoredTypes /\ e.changed /\ ~e.raised)
              => e.notified /\ e.carried = "stored" /\ e.holds
        /\ (e.type = "where" \/ e.raised) => ~e.notified

\* The seconds the table of the specification gives each outcome.
TableDelay(outcome) ==
    CASE outcome \in {"ok", "ServerDisconnectedError", "TimeoutError",
                      "ClientConnectorError", "NotAuthenticatedException"} -> 0
      [] outcome \in {"GatewayTimeoutException", "BadGatewayException"} -> 120
      [] outcome = "NestException" -> 60
      [] OTHER -> 300

\* C8: when a cycle registers its successor, the seconds it slept before
\* are those the table gives for the cycle's outcome.
C8_DelayByOutcome ==
    (last.gen # NoGen /\ last.calls > 0) => last.delay = TableDelay(last.outcome)

\* A cycle answered 502 or 504 that slept 120 s and registered its successor.
C8_Witness ==
    /\ last.outcome \in {"GatewayTimeoutException", "BadGatewayException"}
    /\ last.calls = 1
    /\ last.delay = 120

\* C9: a cycle whose request was answered 401 re-authenticates, registers its
\* successor without delay, and leaves the client holding the session the
\* re-authentication returned.
C9_Recovers401 ==
    last.outcome = "NotAuthenticatedException" =>
        /\ last.escaped = "none"
        /\ last.calls = 1
        /\ last.delay = 0
        /\ clients[last.entry].nest_session = last.reauth

\* C10: after an access-token exchange failed with BadCredentialsException
\* no task starts another access-token exchange.
C10_NoExchangeAfterBadCredentials ==
    [][(\/ last.outcome = "BadCredentialsException"
        \/ last.escaped = "BadCredentialsException"
        \/ setup.result = "ConfigEntryAuthFailed")
          => /\ \A g \in Gens :
                  tasks'[g].pc \in {"token", "handler_token"} => tasks'[g].pc = tasks[g].pc
             /\ setup'.pc = "token" => setup.pc = "token"]_vars

\* C11: async_setup_entry ends by returning or by raising ConfigEntryAuthFailed
\* or ConfigEntryNotReady; no other exception leaves it.
C11_StartupFailuresClassified ==
    setup.result \in {"none", "ok", "ConfigEntryAuthFailed", "ConfigEntryNotReady",
                      "unloaded", "unload_failed"}

TokenExchanges == {"get_access_token_from_refresh_token", "get_access_token_from_cookies"}

\* C12: an access-token exchange answered with the error invalid_grant raises
\* BadCredentialsException, one answered with another error raises an
\* exception that is not BadCredentialsException, and in both cases
\* client.auth is what it was before the call.
C12_ExchangeErrorsClassified ==
    (call.op \in TokenExchanges /\ call.requested /\ HasField(call.token, "error")) =>
        /\ call.raised # "none"
        /\ (call.raised = "BadCredentialsException") <=> (call.token.error = "invalid_grant")
        /\ clients[1].auth = call.before.auth

\* Both exchanges refused with invalid_grant while a token was held.
C12_Witness ==
    /\ call.op = "get_access_token_from_cookies"
    /\ call.requested
    /\ HasField(call.token, "error")
    /\ call.token.error = "invalid_grant"
    /\ call.raised = "BadCredentialsException"
    /\ call.before.auth # NoAuth
    /\ clients[1].auth = call.before.auth

\* C13: authenticate answered without a JWT returns the session held before,
\* raises nothing and leaves client.nest_session alone; answered with a JWT
\* and a /session reply that cannot be read as a session, it raises
\* NestException and leaves client.nest_session alone.
C13_AuthenticateKeepsSession ==
    call.op = "authenticate" =>
        /\ call.jwt = "nojwt" =>
              /\ call.raised = "none"
              /\ call.returned = call.before.nest_session
              /\ clients[1].nest_session = call.before.nest_session
        /\ (call.jwt = "jwt" /\ call.reply # "session") =>
              /\ call.raised = "NestException"
              /\ clients[1].nest_session = call.before.nest_session

\* C14: whenever a cycle issues its long-poll request (no exchange of the
\* cycle having raised), the session credential it sends is present and not
\* expired at that moment.
C14_RequestWithValidSession ==
    [][\A g \in Gens :
          (tasks[g].pc # "polling" /\ tasks'[g].pc = "polling") =>
              /\ tasks'[g].request # NoSession
              /\ ~SessionIsExpired(tasks'[g].request, now')]_vars

SessionOps == {"update_objects", "get_camera_alerts"}

\* C15: a session-bound method sends its request with a session that is
\* present and not expired, and it does send it when the client holds a
\* credential and the provider answers every exchange of the chain with a
\* token, a JWT and a session.
C15_SessionEnsured ==
    call.op \in SessionOps =>
        /\ call.requested =>
              /\ call.sent # NoSession
              /\ ~SessionIsExpired(call.sent, call.at)
        /\ (/\ call.before.refresh_token \/ call.before.cookies
            /\ HasField(call.token, "access_token")
            /\ call.jwt = "jwt"
            /\ call.reply = "session") => call.requested

\* async_unload_entry has completed and removed the entry data.
Unloaded == setup.pc = "idle" /\ setup.result = "unloaded" /\ hassData = NoGen

\* C16: once the entry is unloaded, a long-poll response changes neither the
\* device store nor an index, and no record of it is dispatched.
C16_NoMergeAfterUnload ==
    [][Unloaded =>
          /\ entries' = entries
          /\ last' # last => \A i \in 1..Len(last'.log) : ~last'.log[i].notified]_vars

\* C17: once the entry is unloaded, no task of its loop is waiting on a
\* long-poll request or scheduled to start a cycle.
C17_UnloadStopsLoop ==
    Unloaded => \A g \in Gens : tasks[g].pc \in {"none", "dead"}

\* The snapshot of the setup that has just processed it.
Snapshot == data[setup.gen].updated_buckets

\* The areas a "where" record lists.
ListedAreas(bucket) ==
    IF HasField(bucket.value, "wheres")
    THEN {bucket.value.wheres[i] : i \in 1..Len(bucket.value.wheres)}
    ELSE {}

\* C18: after the initial snapshot has been processed, every device or
\* sensor record whose where_id is listed in a "where" record of the same
\* snapshot resolves to that area's name through the areas index, whichever
\* of the two records comes first in the batch.
C18_AreaResolvedInAnyOrder ==
    setup.pc = "platforms" =>
        \A i, j \in 1..Len(Snapshot) :
            LET b == Snapshot[i]
                w == Snapshot[j]
                ed == entries[setup.gen]
            IN (/\ KeyType(b.object_key) \in {"device", "kryptonite"}
                /\ KeyType(w.object_key) = "where"
                /\ HasField(b.value, "where_id"))
               => \A area \in ListedAreas(w) :
                    area.where_id = b.value.where_id =>
                        /\ AreaName(ed, ed.devices[b.object_key]) = area.name
                        /\ KeyType(b.object_key) = "kryptonite" =>
                              SensorAreas(ed)[b.object_key] = area.name

\* A snapshot that lists the sensor before the areas and the thermostat
\* after them, both in listed areas.
C18_Witness ==
    /\ setup.pc = "platforms"
    /\ Len(Snapshot) = 3
    /\ KeyType(Snapshot[1].object_key) = "kryptonite"
    /\ KeyType(Snapshot[2].object_key) = "where"
    /\ KeyType(Snapshot[3].object_key) = "device"
    /\ AreaName(entries[setup.gen], Snapshot[1]) = "Hall"
    /\ AreaName(entries[setup.gen], Snapshot[3]) = "Den"
    /\ SensorAreas(entries[setup.gen])[Snapshot[1].object_key] = "Hall"

\* The records of a batch whose type the loops have a branch for.
Recognised(bucket) == KeyType(bucket.object_key) \in AppliedTypes

\* What a cycle's records did and the response they came in: of the cycle
\* that ended last and of the cycles still running.
CycleRecords ==
    {[log |-> last.log, response |-> last.response]}
        \cup {[log |-> tasks[g].log, response |-> tasks[g].response] : g \in Gens}

\* C19: a record whose key prefix is not a recognised type is ignored, in the
\* snapshot and in every delta: the batch gives what it gives without the
\* record, the records after it are processed, nothing is added to the
\* device store, no index changes and nothing is dispatched.
C19_UnknownTypeIgnored ==
    /\ setup.pc = "first_data" =>
          \A listed \in FirstData(account) : \A buckets \in Orderings(listed) :
              SnapshotObjects(EmptyEntry, buckets, 1)
                  = SnapshotObjects(EmptyEntry, SelectSeq(buckets, Recognised), 1)
    /\ setup.pc = "platforms" =>
          /\ entries[setup.gen]
                = SnapshotObjects(EmptyEntry, SelectSeq(Snapshot, Recognised), 1).entry
          /\ \A i \in 1..Len(Snapshot) :
                ~Recognised(Snapshot[i]) =>
                    Snapshot[i].object_key \notin DOMAIN entries[setup.gen].devices
    /\ \A c \in CycleRecords : \A i \in 1..Len(c.log) :
          c.log[i].type \notin AppliedTypes =>
              /\ ~c.log[i].raised
              /\ ~c.log[i].changed
              /\ ~c.log[i].replaced
              /\ ~c.log[i].notified
              /\ i < Len(c.response) => i < Len(c.log)

\* A snapshot and a delta that both list the object of unknown type before
\* the smoke detector: the detector is stored and dispatched, the other
\* object is not in the store.
C19_Witness ==
    /\ hassData # NoGen
    /\ Len(data[hassData].updated_buckets) = 2
    /\ KeyType(data[hassData].updated_buckets[1].object_key) = "user"
    /\ KeyType(data[hassData].updated_buckets[2].object_key) = "topaz"
    /\ last.outcome = "ok"
    /\ Len(last.log) = 2
    /\ last.log[1].type = "user"
    /\ last.log[2].type = "topaz"
    /\ last.log[2].notified
    /\ DOMAIN entries[hassData].devices = {<<"topaz", "a">>}

\* Where a key appears in a response.
Hits(response, key) == {j \in 1..Len(response) : response[j].object_key = key}

\* C20: after a successful long-poll response every cursor entry whose key
\* appears in the response carries the revision and timestamp the response
\* gives for the key (its last record of that key), every other cursor entry
\* is what it was, and the next request posts this cursor.
C20_CursorFollowsResponse ==
    [][\A g \in Gens :
        /\ (tasks[g].pc = "polling" /\ tasks'[g].pc = "scheduled" /\ last'.outcome = "ok") =>
              LET before == data[g].updated_buckets
                  after == data'[g].updated_buckets
                  response == last'.response
              IN /\ Len(after) = Len(before)
                 /\ \A i \in 1..Len(before) :
                      LET hits == Hits(response, before[i].object_key) IN
                      /\ after[i].object_key = before[i].object_key
                      /\ hits = {} => after[i] = before[i]
                      /\ hits # {} =>
                            LET j == CHOOSE j \in hits : \A k \in hits : k <= j IN
                            /\ after[i].object_revision = response[j].object_revision
                            /\ after[i].object_timestamp = response[j].object_timestamp
        /\ (tasks[g].pc = "scheduled" /\ tasks'[g].pc = "polling") =>
              tasks'[g].cursor = CursorRequest(data'[g].updated_buckets)
      ]_vars

\* A request that posts a cursor of two entries, the first at the revision a
\* response gave it and the second as the snapshot listed it.
C20_Witness ==
    \E g \in Gens :
        /\ tasks[g].pc = "polling"
        /\ Len(tasks[g].cursor) = 2
        /\ tasks[g].cursor[1].object_revision = 2
        /\ tasks[g].cursor[1].object_timestamp = TimestampOf(2)
        /\ tasks[g].cursor[2].object_revision = 1
        /\ tasks[g].cursor = CursorRequest(data[g].updated_buckets)

\* The chain of the entry that is set up is between two cycles.
BetweenCycles(g) == hassData = g /\ tasks[g].pc = "scheduled"

\* C21: between cycles the subscription cursor is the stored records: the
\* keys of the cursor are the keys of the device store, and each cursor entry
\* carries the revision and timestamp of the stored record of its key.
C21_CursorIsStore ==
    \A g \in Gens :
        BetweenCycles(g) =>
            LET cursor == data[g].updated_buckets
                devices == entries[g].devices
            IN /\ {cursor[i].object_key : i \in 1..Len(cursor)} = DOMAIN devices
               /\ \A i \in 1..Len(cursor) :
                    cursor[i].object_key \in DOMAIN devices =>
                        /\ cursor[i].object_revision
                              = devices[cursor[i].object_key].object_revision
                        /\ cursor[i].object_timestamp
                              = devices[cursor[i].object_key].object_timestamp

\* C22: when a change notification for a record is dispatched, the device
\* store holds the record and every index derived from it reflects it.
C22_IndicesReadyAtDispatch ==
    \A c \in CycleRecords : \A i \in 1..Len(c.log) :
        c.log[i].notified => c.log[i].seen

\* A cycle that dispatched two thermostat records, the second a newer revision.
C22_Witness ==
    /\ last.outcome = "ok"
    /\ Len(last.log) = 2
    /\ last.log[1].type = "device"
    /\ last.log[1].notified
    /\ last.log[1].seen
    /\ last.log[2].notified
    /\ last.log[2].revision = "newer"
    /\ Reflects(entries[last.entry], last.response[2])

\* The instants of the clock.
Instants == 0..MaxTime

\* C23: under every interleaving of the loop's re-authentication and the
\* re-authentication done by update_objects, the access credential of a
\* client is absent or the result of one token exchange, and its session is
\* absent or the result of one session exchange: never a mix of two.
C23_CredentialsWhole ==
    \A g \in Gens :
        /\ clients[g].auth \in {NoAuth} \cup {GoogleAuthResponse(t) : t \in Instants}
        /\ clients[g].nest_session \in {NoSession} \cup {NestResponse(t) : t \in Instants}

\* update_objects has replaced the expired session while the loop's 401
\* handler is suspended in its own session exchange.
C23_Witness ==
    /\ call.op = "update_objects"
    /\ call.pc = "request"
    /\ call.before.nest_session = NestResponse(0)
    /\ call.returned = NestResponse(1)
    /\ \E g \in Gens :
          /\ tasks[g].pc = "handler_authenticate"
          /\ clients[g].nest_session = NestResponse(1)

\* The places of a task where it is suspended in authenticate.
InAuthenticate == {"authenticate", "handler_authenticate"}

\* authenticate is handed the access_token string of the credential the
\* client holds, and the client holds one.
PresentsHeldToken(bearer, client) ==
    client.auth # NoAuth /\ bearer = AccessTokenOf(client.auth)

\* C24: a session exchange is started only after an access-token exchange
\* has succeeded, and the token it presents is the access_token string of
\* the access credential the client holds then: at startup, in the loop's
\* pre-request refresh, in the loop's 401 handler and in update_objects.
C24_SessionExchangePresentsToken ==
    [][/\ (setup.pc # "authenticate" /\ setup'.pc = "authenticate") =>
             PresentsHeldToken(setup'.bearer, clients'[setup'.gen])
       /\ \A g \in Gens :
             (tasks[g].pc \notin InAuthenticate /\ tasks'[g].pc \in InAuthenticate) =>
                 PresentsHeldToken(tasks'[g].bearer, clients'[tasks'[g].entry])
       /\ (call.pc # "authenticate" /\ call'.pc = "authenticate") =>
             PresentsHeldToken(call'.bearer, clients'[hassData'])
      ]_vars

\* C25: a credential is judged expired exactly when its expiry instant is at
\* or before the current time (for an access credential: the instant it was
\* made plus the declared lifetime), and an absent credential is judged to
\* need renewal.
C25_ExpiredExactlyAtExpiry ==
    /\ call.op = "auth_check" =>
          call.renew <=> (\/ call.before.auth = NoAuth
                          \/ call.before.auth.expiry_date - call.utcoffset <= call.at)
    /\ call.op = "session_check" =>
          call.renew <=> (\/ call.before.nest_session = NoSession
                          \/ call.before.nest_session.expires_in <= call.at)

\* In a batch, the structure record that is last for its key and the link
\* record that is last for its key and names that structure.  A pair of
\* positions <<i, j>>.
StructureAndLink(batch) ==
    {p \in (1..Len(batch)) \X (1..Len(batch)) :
        LET s == batch[p[1]]
            l == batch[p[2]]
        IN /\ KeyType(s.object_key) = "structure"
           /\ KeyType(l.object_key) = "link"
           /\ s = LastWithKey(batch, s.object_key, Len(batch))
           /\ l = LastWithKey(batch, l.object_key, Len(batch))
           /\ HasField(s.value, "name") /\ HasField(s.value, "time_zone")
           /\ HasField(l.value, "structure")
           /\ l.value.structure = s.object_key}

\* The indices of the entry data hold the structure's name under its id and
\* the structure's id under the thermostat's id.
Linked(ed, s, l) ==
    /\ Get(ed.structures, KeyId(s.object_key), "None") = s.value.name
    /\ Get(ed.swarms, KeyId(l.object_key), "None") = KeyId(s.object_key)

\* C26: when a snapshot holds a structure record and the link record of a
\* thermostat that names the structure, the structure-name index maps the
\* structure's id to its name and swarms maps the thermostat's id to the
\* structure's id; the same holds when the records come in a delta.
C26_StructureAndLinkIndexed ==
    /\ setup.pc = "platforms" =>
          \A p \in StructureAndLink(Snapshot) :
              Linked(entries[setup.gen], Snapshot[p[1]], Snapshot[p[2]])
    /\ last.outcome = "ok" =>
          \A p \in StructureAndLink(last.response) :
              Linked(entries[last.entry], last.response[p[1]], last.response[p[2]])

\* A delta that brought the link record and then the structure it names,
\* after a snapshot that listed them the other way round.
C26_Witness ==
    /\ last.outcome = "ok"
    /\ StructureAndLink(last.response) = {<<2, 1>>}
    /\ StructureAndLink(data[last.gen].updated_buckets) = {<<1, 2>>}
    /\ entries[last.entry].structures = Put(EmptyDict, "b", last.response[2].value.name)
    /\ entries[last.entry].swarms = Put(EmptyDict, "a", "b")

\* The keys a response lists more than once.
Repeated(response) ==
    {response[i].object_key : i \in {j \in 1..Len(response) :
        \E k \in 1..Len(response) : k # j /\ response[k].object_key = response[j].object_key}}

\* C27: when a response lists a key more than once, its records are applied
\* in list order and the last one wins: after the cycle the device store
\* holds the last occurrence under the key, and so does the cursor entry of
\* the key.
C27_LastOccurrenceWins ==
    last.outcome = "ok" =>
        /\ Len(last.log) = Len(last.response)
        /\ \A i \in 1..Len(last.log) :
              last.log[i].type = KeyType(last.response[i].object_key)
        /\ \A key \in Repeated(last.response) :
              LET final == last.response[CHOOSE j \in Hits(last.response, key) :
                                             \A k \in Hits(last.response, key) : k <= j]
                  cursor == data[last.gen].updated_buckets
              IN /\ KeyType(key) \in StoredTypes =>
                       Get(entries[last.entry].devices, key, NoRecord) = final
                 /\ \A i \in 1..Len(cursor) :
                       cursor[i].object_key = key =>
                           /\ cursor[i].object_revision = final.object_revision
                           /\ cursor[i].object_timestamp = final.object_timestamp
                           /\ cursor[i].value = final.value

\* A response that lists the smoke detector at revision 2 and then at
\* revision 1: store and cursor hold revision 1.
C27_Witness ==
    /\ last.outcome = "ok"
    /\ Len(last.response) = 2
    /\ last.response[1].object_key = <<"topaz", "a">>
    /\ last.response[2].object_key = <<"topaz", "a">>
    /\ last.response[1].object_revision = 2
    /\ last.response[2].object_revision = 1
    /\ entries[last.entry].devices[<<"topaz", "a">>] = last.response[2]
    /\ \E i \in 1..Len(data[last.gen].updated_buckets) :
          data[last.gen].updated_buckets[i] = last.response[2]

\* C28: every long-poll request of the loop goes to the transport URL the
\* initial snapshot returned, and the data handed to the next cycle names
\* that URL whatever the cycle's outcome, a 401 answered by a new session
\* included.
C28_TransportUrlStable ==
    \A g \in Gens :
        /\ tasks[g].pc = "polling" => tasks[g].url = "transport"
        /\ tasks[g].pc # "none" => data[g].transport_url = "transport"

\* A cycle answered with 401 whose handler got a new session; its successor
\* is registered with the snapshot's URL.
C28_Witness ==
    /\ last.outcome = "NotAuthenticatedException"
    /\ last.reauth = NestResponse(1)
    /\ tasks[last.gen].pc = "scheduled"
    /\ clients[last.entry].nest_session = NestResponse(1)
    /\ data[last.gen].transport_url = "transport"

\* The keys of a list of records, in list order.
KeysOf(buckets) == [i \in 1..Len(buckets) |-> buckets[i].object_key]

\* C29: after startup the keys of the subscription cursor never change: they
\* stay the keys of the list the initial snapshot returned, unrecognised
\* types included.  A
\* record of a key the cursor lacks is written to the device store and
\* dispatched, and the key is not in the cursor the next request posts.
C29_CursorKeysFixed ==
    [][\A g \in Gens :
        /\ tasks[g].pc # "none" =>
              KeysOf(data'[g].updated_buckets) = KeysOf(data[g].updated_buckets)
        /\ (tasks[g].pc = "polling" /\ last'.outcome = "ok" /\ last'.gen = g) =>
              \A i \in 1..Len(last'.response) :
                  LET b == last'.response[i] IN
                  (/\ KeyType(b.object_key) \in StoredTypes
                   /\ \A j \in 1..Len(data[g].updated_buckets) :
                         data[g].updated_buckets[j].object_key # b.object_key)
                  => /\ b.object_key \in DOMAIN entries'[last'.entry].devices
                     /\ last'.log[i].notified
        /\ tasks'[g].pc = "polling" =>
              KeysOf(tasks'[g].cursor) = KeysOf(data'[g].updated_buckets)
      ]_vars

\* A request whose cursor lacks the key of a record the device store holds
\* at revision 2: the record came in a delta.
C29_Witness ==
    \E g \in Gens :
        /\ tasks[g].pc = "polling"
        /\ Len(tasks[g].cursor) = 1
        /\ tasks[g].cursor[1].object_key = <<"user", "a">>
        /\ <<"topaz", "a">> \in DOMAIN entries[g].devices
        /\ entries[g].devices[<<"topaz", "a">>].object_revision = 2

\* The cycle of chain g has failed in its request, in this step or before.
RequestFailed(g) ==
    \/ tasks'[g].outcome \in PollFailures
    \/ last' # last /\ last'.gen = g /\ last'.outcome \in PollFailures

\* A cycle whose request fails leaves the device store, the indices and the
\* cursor as they were and dispatches nothing.
FailedRequestFrame ==
    [][\A g \in Gens :
        RequestFailed(g) =>
            /\ entries' = entries
            /\ data' = data
            /\ tasks'[g].log = << >>
            /\ last'.gen = g => last'.log = << >>
      ]_vars

\* C30: a cycle whose long-poll request fails leaves the device store, every
\* index and the cursor unchanged and dispatches nothing, and its successor
\* is scheduled with the same cursor.
C30_FailedRequestKeepsState ==
    [][\A g \in Gens :
        RequestFailed(g) =>
            /\ entries' = entries
            /\ data' = data
            /\ tasks'[g].log = << >>
            /\ (last' # last /\ last'.gen = g) =>
                  /\ last'.log = << >>
                  /\ last'.calls = 1
                  /\ tasks'[g].pc = "scheduled"
      ]_vars

\* C31: the cursor advances only when a whole response batch was applied.
\* Once the loop runs, data["updated_buckets"] changes only in a step that
\* ends a cycle whose every record was applied without raising.  When the
\* record loop raises, the cursor stays as it was, every record before the
\* failing one has been dispatched (when of a stored type) and, unless a
\* later record of the batch has its key, is in the device store with its
\* indices; and every request posts the cursor as it is then, so the
\* successor of the failed cycle posts the old one.
C31_CursorAdvancesOnWholeBatch ==
    [][\A g \in Gens :
        LET before == data[g].updated_buckets
            after == data'[g].updated_buckets
        IN
        /\ (tasks[g].pc # "none" /\ after # before) =>
              /\ tasks[g].pc = "polling"
              /\ last'.gen = g
              /\ last'.outcome = "ok"
              /\ Len(last'.log) = Len(last'.response)
              /\ \A i \in 1..Len(last'.log) : ~last'.log[i].raised
        /\ (tasks[g].pc = "polling" /\ tasks'[g].place = "apply") =>
              LET t == tasks'[g]
                  n == Len(t.log)
                  ed == entries'[t.entry]
              IN /\ after = before
                 /\ t.cursor = tasks[g].cursor
                 /\ t.calls = 0
                 /\ \A i \in 1..(n - 1) :
                      LET b == t.response[i] IN
                      KeyType(b.object_key) \in StoredTypes =>
                          /\ t.log[i].notified
                          /\ (\A j \in (i + 1)..n :
                                  t.response[j].object_key # b.object_key) =>
                                /\ Get(ed.devices, b.object_key, NoRecord) = b
                                /\ Reflects(ed, b)
        /\ (tasks[g].pc # "polling" /\ tasks'[g].pc = "polling") =>
              tasks'[g].cursor = CursorRequest(before)
      ]_vars

\* The successor of a cycle whose batch failed at its second record, the
\* areas: it posts the camera at revision 1, as the failed cycle did, while
\* the device store holds the camera at revision 2.
C31_Witness ==
    \E g \in Gens :
        /\ tasks[g].pc = "polling"
        /\ account = {<<"quartz", "a">>, <<"where", "a">>}
        /\ <<"quartz", "a">> \in DOMAIN entries[g].devices
        /\ entries[g].devices[<<"quartz", "a">>].object_revision = 2
        /\ \E i \in 1..Len(tasks[g].cursor) :
              /\ tasks[g].cursor[i].object_key = <<"quartz", "a">>
              /\ tasks[g].cursor[i].object_revision = 1

\* The exchanges a get_access_token call made after startup is recorded with.
LaterExchanges == {tasks[g].exchange : g \in Gens} \cup {call.exchange}

\* C33: re-authentication after startup uses the credential path startup
\* used.  A client that got its access credential at startup holds the issue
\* token with cookies exactly when the entry holds both, and the refresh
\* token exactly when the entry holds it and not both of the others; every
\* later get_access_token call, of the loop or of update_objects, starts the
\* exchange startup started, and none fails for want of credentials.
C33_SameCredentialPath ==
    /\ \A g \in Gens :
          clients[g].auth # NoAuth =>
              /\ clients[g].cookies <=> (config.issue_token /\ config.cookies)
              /\ clients[g].refresh_token <=>
                    (config.refresh_token /\ ~(config.issue_token /\ config.cookies))
    /\ \A exchange \in LaterExchanges \ {"none"} :
          /\ exchange # "no_credentials"
          /\ exchange = "cookies" <=> (config.issue_token /\ config.cookies)
          /\ exchange = "refresh_token" <=> ~(config.issue_token /\ config.cookies)

\* An entry that holds all three credentials: the loop's 401 handler and
\* update_objects have both started a cookie exchange.
C33_Witness ==
    /\ config = [issue_token |-> TRUE, cookies |-> TRUE, refresh_token |-> TRUE]
    /\ call.op = "update_objects"
    /\ call.exchange = "cookies"
    /\ \E g \in Gens :
          /\ tasks[g].pc = "handler_authenticate"
          /\ tasks[g].exchange = "cookies"

\* The setup that built entry data e has run to its end: the session
\* exchange succeeded, every record of the snapshot that the loop stores is
\* in the device store, and async_setup_entry has returned, which it does
\* after it published the entry data and the platforms were set up.
SetUp(e) ==
    /\ e # NoGen
    /\ e <= gens
    /\ ~(setup.pc # "idle" /\ setup.gen = e)
    /\ clients[e].nest_session # NoSession
    /\ \A i \in 1..Len(data[e].updated_buckets) :
          StoresRecord(data[e].updated_buckets[i].object_key) =>
              data[e].updated_buckets[i].object_key \in DOMAIN entries[e].devices

\* C34: startup is ordered.  A long-poll request is issued with an entry's
\* client, and a change notification is dispatched from a response applied
\* to an entry's data, only after the setup of that entry has authenticated,
\* processed the whole snapshot, published the entry data and set up the
\* platforms.
C34_StartupOrdered ==
    [][\A g \in Gens :
        /\ (tasks[g].pc # "polling" /\ tasks'[g].pc = "polling") =>
              SetUp(tasks'[g].entry)
        /\ (/\ tasks[g].pc = "polling"
            /\ \/ \E i \in 1..Len(tasks'[g].log) : tasks'[g].log[i].notified
               \/ /\ last' # last
                  /\ last'.gen = g
                  /\ \E i \in 1..Len(last'.log) : last'.log[i].notified) =>
              SetUp(tasks[g].entry)
      ]_vars

\* async_unload_entry has returned in this step.
UnloadReturned ==
    /\ setup.pc = "idle"
    /\ hassData # NoGen
    /\ setup'.pc = "idle"
    /\ setup'.result \in {"unloaded", "unload_failed"}
    /\ setup' # setup \/ hassData' # hassData

\* C35: async_unload_entry is all-or-nothing.  When it returns false the
\* entry data is still in hass.data, unchanged, and the update listener is
\* still registered; when it returns true the listener has been undone and
\* the entry data removed; and nothing else removes either.
C35_UnloadAllOrNothing ==
    [][/\ UnloadReturned =>
             /\ setup'.result = "unload_failed" =>
                   /\ hassData' = hassData
                   /\ listeners' = listeners
                   /\ entries' = entries
             /\ setup'.result = "unloaded" =>
                   /\ hassData' = NoGen
                   /\ listeners' = listeners - 1
       /\ (hassData # NoGen /\ hassData' = NoGen) => UnloadReturned
       /\ listeners' < listeners => UnloadReturned /\ setup'.result = "unloaded"
       /\ (listeners' = 1) <=> (hassData' # NoGen)
       /\ (listeners' = 0) <=> (hassData' = NoGen)
      ]_vars

\* The second setup of the entry, after an unload that succeeded, and an
\* unload of it that failed: its entry data and its listener are in place.
C35_Witness ==
    /\ gens = 2
    /\ setup.pc = "idle"
    /\ setup.result = "unload_failed"
    /\ hassData = 2
    /\ listeners = 1

\* The cycle of chain g that ended last applied the update: the device store
\* holds it and it was dispatched.
Written(g, update) ==
    /\ last.gen = g
    /\ last.outcome = "ok"
    /\ last.response = <<update>>
    /\ last.log[1].notified
    /\ Get(entries[last.entry].devices, update.object_key, NoRecord) = update

\* No task of a loop has ended without a successor.
LoopSurvives == \A g \in Gens : tasks[g].pc # "dead"

\* While no exception leaves a task, every update is written and dispatched
\* in the end.
WrittenWhileLoopSurvives ==
    []LoopSurvives =>
        \A g \in Gens : \A update \in Updates :
            (tasks[g].pc = "scheduled") ~> Written(g, update)

\* C32: when the server goes on answering and re-authentication goes on
\* succeeding, then under fair scheduling every update the server has for a
\* key of the cursor is in the end written to the device store and
\* dispatched, whatever failures of the loop's cycles come before.
C32_UpdateEventuallyWritten ==
    \A g \in Gens : \A update \in Updates :
        (tasks[g].pc = "scheduled") ~> Written(g, update)
====
